---- MODULE Spec2Model ----
(***************************************************************************)
(* Model of the split-process-merge pipeline of render_engine.py:          *)
(* plan_chunks, process_chunk, merge_chunks and run_parallel.              *)
(*                                                                         *)
(* Python floats are IEEE-754 binary64 values.  They are modelled exactly: *)
(* a float is a sign, a normalised significand of Precision bits (held as  *)
(* a multi-limb natural number) and the exponent of its last bit; every    *)
(* arithmetic operation computes the exact result and then rounds it once  *)
(* to nearest, ties to even.  Exponent overflow and subnormals are out of  *)
(* reach of the durations used here and are not modelled.                  *)
(***************************************************************************)
EXTENDS Integers, Sequences, FiniteSets, TLC

\* ------------------------------------------------------------------------
\* Bounds of the model
\* ------------------------------------------------------------------------
MaxWorkers == 3
MaxPlanWorkers == 5
MaxPlanChunks == 7
MaxDuration == 12
\* largest worker count of a job submitted to the server
MaxJobWorkers == 2
\* largest --workers value given on the command line
MaxCliWorkers == 8
\* longest measured time of the Amdahl analysis, in tenths of a second
MaxTimeUnits == 9
\* number of jobs submitted to the server with several jobs
MaxJobs == 2
\* width of a limb of the big-number representation
LimbBits == 12

\* ------------------------------------------------------------------------
\* Program constants
\* ------------------------------------------------------------------------
\* significand width of a Python float (binary64)
Precision == 53
\* duration of the synthetic test video the CLI generates
TestVideoDuration == 30

\* ------------------------------------------------------------------------
\* Natural numbers of any size: sequences of limbs in base 2^LimbBits, least
\* significant limb first, without leading zero limbs (<<>> is 0)
\* ------------------------------------------------------------------------
Base == 2 ^ LimbBits
Front(s) == SubSeq(s, 1, Len(s) - 1)
Last(s) == s[Len(s)]
Zeros(n) == [k \in 1..n |-> 0]

RECURSIVE Canon(_)
Canon(a) == IF a = <<>> THEN <<>>
            ELSE IF Last(a) = 0 THEN Canon(Front(a)) ELSE a

RECURSIVE NatFromInt(_)
NatFromInt(n) == IF n = 0 THEN <<>>
                 ELSE <<n % Base>> \o NatFromInt(n \div Base)

\* number of bits of a machine integer
SmallBitLen(x) == IF x = 0 THEN 0
                  ELSE CHOOSE b \in 1..30 : 2 ^ (b - 1) <= x /\ x < 2 ^ b

NatBitLen(a) == IF a = <<>> THEN 0
                ELSE (Len(a) - 1) * LimbBits + SmallBitLen(Last(a))

RECURSIVE AddRec(_, _, _)
AddRec(a, b, carry) ==
    IF a = <<>> /\ b = <<>> THEN NatFromInt(carry)
    ELSE LET x == IF a = <<>> THEN 0 ELSE Head(a)
             y == IF b = <<>> THEN 0 ELSE Head(b)
             s == x + y + carry
         IN  <<s % Base>> \o AddRec(IF a = <<>> THEN a ELSE Tail(a),
                                    IF b = <<>> THEN b ELSE Tail(b),
                                    s \div Base)

\* a + b
NatAdd(a, b) == Canon(AddRec(a, b, 0))

RECURSIVE SubRec(_, _, _)
SubRec(a, b, borrow) ==
    IF a = <<>> THEN <<>>
    ELSE LET y == IF b = <<>> THEN 0 ELSE Head(b)
             d == Head(a) - y - borrow
         IN  <<IF d < 0 THEN d + Base ELSE d>>
             \o SubRec(Tail(a), IF b = <<>> THEN b ELSE Tail(b),
                       IF d < 0 THEN 1 ELSE 0)

\* a - b, for a >= b
NatSub(a, b) == Canon(SubRec(a, b, 0))

\* a < b
NatLess(a, b) ==
    IF Len(a) # Len(b) THEN Len(a) < Len(b)
    ELSE \E i \in 1..Len(a) :
            a[i] < b[i] /\ \A j \in (i + 1)..Len(a) : a[j] = b[j]

RECURSIVE MulRec(_, _, _)
MulRec(a, k, carry) ==
    IF a = <<>> THEN NatFromInt(carry)
    ELSE LET p == Head(a) * k + carry
         IN  <<p % Base>> \o MulRec(Tail(a), k, p \div Base)

\* a * k for a machine integer k <= Base
NatMulSmall(a, k) == Canon(MulRec(a, k, 0))

\* long division by a machine integer n <= Base, most significant limb first
RECURSIVE DivRec(_, _, _)
DivRec(a, n, r) ==
    IF a = <<>> THEN [q |-> <<>>, r |-> r]
    ELSE LET cur  == r * Base + Last(a)
             rest == DivRec(Front(a), n, cur % n)
         IN  [q |-> Append(rest.q, cur \div n), r |-> rest.r]

\* quotient and remainder of a by n
NatDivSmall(a, n) == LET d == DivRec(a, n, 0) IN [q |-> Canon(d.q), r |-> d.r]

\* a * 2^s
NatShl(a, s) ==
    IF a = <<>> THEN <<>>
    ELSE Zeros(s \div LimbBits) \o NatMulSmall(a, 2 ^ (s % LimbBits))

\* a \div 2^s, and whether bits were shifted out
NatShr(a, s) ==
    LET w == s \div LimbBits
        d == NatDivSmall(SubSeq(a, w + 1, Len(a)), 2 ^ (s % LimbBits))
    IN  [q      |-> d.q,
         sticky |-> d.r # 0 \/ \E i \in 1..w : i <= Len(a) /\ a[i] # 0]

NatOdd(a) == a # <<>> /\ a[1] % 2 = 1

\* ------------------------------------------------------------------------
\* Floats: (-1)^neg * m * 2^e with 2^(Precision-1) <= m < 2^Precision, or zero
\* ------------------------------------------------------------------------
FZero == [neg |-> FALSE, m |-> <<>>, e |-> 0]

\* The float nearest to (-1)^neg * (n + t) * 2^e, where 0 < t < 1 when sticky
\* and t = 0 otherwise; ties go to the even significand.
RoundNat(neg, n, e, sticky) ==
    LET len == NatBitLen(n)
    IN  IF len = 0 THEN FZero
        ELSE IF len <= Precision
        THEN [neg |-> neg, m |-> NatShl(n, Precision - len),
              e |-> e - (Precision - len)]
        ELSE LET s     == len - Precision
                 sh    == NatShr(n, s - 1)
                 keep  == NatDivSmall(sh.q, 2).q
                 below == sticky \/ sh.sticky
                 up    == NatOdd(sh.q) /\ (below \/ NatOdd(keep))
                 inc   == NatAdd(keep, <<1>>)
             IN  IF ~up
                 THEN [neg |-> neg, m |-> keep, e |-> e + s]
                 ELSE IF NatBitLen(inc) > Precision
                 THEN [neg |-> neg, m |-> NatDivSmall(inc, 2).q,
                       e |-> e + s + 1]
                 ELSE [neg |-> neg, m |-> inc, e |-> e + s]

\* float(n) for an integer n
FromInt(n) == IF n < 0 THEN RoundNat(TRUE, NatFromInt(0 - n), 0, FALSE)
              ELSE RoundNat(FALSE, NatFromInt(n), 0, FALSE)

\* a / n for a float a and a positive int n (the int converts to a float
\* exactly, the quotient of the two values is rounded once)
FDivInt(a, n) ==
    IF a.m = <<>> THEN FZero
    ELSE LET k == SmallBitLen(n) + 2
             d == NatDivSmall(NatShl(a.m, k), n)
         IN  RoundNat(a.neg, d.q, a.e - k, d.r # 0)

\* n * a for a float a and a natural int n
FMulInt(n, a) ==
    IF n = 0 \/ a.m = <<>> THEN FZero
    ELSE RoundNat(a.neg, NatMulSmall(a.m, n), a.e, FALSE)

FNeg(a) == IF a.m = <<>> THEN a ELSE [a EXCEPT !.neg = ~a.neg]

\* a + b
FAdd(a, b) ==
    IF a.m = <<>> THEN b
    ELSE IF b.m = <<>> THEN a
    ELSE LET e  == IF a.e < b.e THEN a.e ELSE b.e
             am == NatShl(a.m, a.e - e)
             bm == NatShl(b.m, b.e - e)
         IN  IF a.neg = b.neg
             THEN RoundNat(a.neg, NatAdd(am, bm), e, FALSE)
             ELSE IF NatLess(am, bm)
             THEN RoundNat(b.neg, NatSub(bm, am), e, FALSE)
             ELSE RoundNat(a.neg, NatSub(am, bm), e, FALSE)

\* a - b
FSub(a, b) == FAdd(a, FNeg(b))

\* long division of two naturals, one hexadecimal quotient digit at a time:
\* the digit at position i is the number of multiples of b * 16^i that fit
\* in what is left (st.r); st.q collects the digits found so far
NatDivStep(st, b, i) ==
    LET bs == NatShl(b, 4 * i)
        d  == Cardinality({j \in 1..15 : ~NatLess(st.r, NatMulSmall(bs, j))})
    IN  [q |-> NatAdd(st.q, NatShl(NatFromInt(d), 4 * i)),
         r |-> NatSub(st.r, NatMulSmall(bs, d))]

\* the digits from position i down to 0 (each step's result is computed
\* once, as the one element of a set)
RECURSIVE NatDivDigits(_, _, _)
NatDivDigits(st, b, i) ==
    IF i < 0 THEN st
    ELSE CHOOSE res \in {NatDivDigits(nx, b, i - 1) :
                             nx \in {NatDivStep(st, b, i)}} : TRUE

\* quotient and remainder of a by b, for b > 0
NatDiv(a, b) ==
    IF NatLess(a, b) THEN [q |-> <<>>, r |-> a]
    ELSE CHOOSE res \in {NatDivDigits([q |-> <<>>, r |-> x], y,
                                      (NatBitLen(x) - NatBitLen(y)) \div 4) :
                             x \in {a}, y \in {b}} : TRUE

\* a / b for floats a and b # 0: the quotient of the two values, rounded
\* once (the operands and the integer quotient are each computed once, as
\* the one element of a set)
FDiv(a, b) ==
    CHOOSE quot \in
        {IF x.m = <<>> THEN FZero
         ELSE CHOOSE rounded \in
                  {RoundNat(x.neg # y.neg, d.q, x.e - (Precision + 2) - y.e,
                            d.r # <<>>) :
                   d \in {NatDiv(NatShl(x.m, Precision + 2), y.m)}} : TRUE :
         x \in {a}, y \in {b}} : TRUE

\* a < b
FLess(a, b) == LET d == FSub(a, b) IN d.m # <<>> /\ d.neg

\* ------------------------------------------------------------------------
\* plan_chunks
\* ------------------------------------------------------------------------
\* os.path.join(temp_dir, f"chunk_{i:03d}.mp4")
ChunkPath(i) == [dir |-> "temp_dir", file |-> "chunk", idx |-> i]

plan_chunks(duration, num_chunks) ==
    LET chunk_duration == FDivInt(duration, num_chunks)
    IN  [k \in 1..num_chunks |->
            LET i     == k - 1
                start == FMulInt(i, chunk_duration)
            IN  [chunk_id    |-> i,
                 start       |-> start,
                 duration    |-> IF i < num_chunks - 1 THEN chunk_duration
                                 ELSE FSub(duration, start),
                 output_path |-> ChunkPath(i)]]

Max(a, b) == IF a > b THEN a ELSE b

\* (variant: the product rounded to the nearest integer instead of truncated)
NumChunksRounded(w) == Max((3 * w + 1) \div 2, w)

\* int(num_workers * 1.5), then max(num_chunks, num_workers); the product is
\* exact in binary64 and int() truncates it
NumChunks(w) == Max((3 * w) \div 2, w)

\* ------------------------------------------------------------------------
\* State
\* ------------------------------------------------------------------------
VARIABLES
    num_workers,    \* argument of run_parallel
    duration,       \* metadata.duration
    pc,             \* position of the thread executing run_parallel
    num_chunks,     \* local of run_parallel (0 before planning)
    chunks,         \* local of run_parallel: the planned ChunkTasks
    fstate,         \* chunk id -> state of its future in the process pool
    fvalue,         \* chunk id -> what its future holds once finished
    results,        \* local of run_parallel: the ChunkResults collected
    arrival,        \* chunk ids in the order as_completed yielded them
    pending_exc,    \* exception propagating out of the as_completed loop
    chunk_paths,    \* argument list handed to merge_chunks
    concat_list,    \* contents of concat_list.txt
    merge_rc,       \* outcome of the two ffmpeg concat invocations
    merge_ret,      \* the value merge_chunks returned
    output_file,    \* the file at output_path
    error,          \* exception raised by run_parallel
    returned,       \* the results list run_parallel returned
    submits,        \* chunk id -> number of executor.submit calls
    calls,          \* chunk id -> number of process_chunk invocations
    merge_calls     \* number of ffmpeg concat invocations of each kind

\* run_render_task of server.py, which wraps one run_parallel as a job
VARIABLES
    progress_callback, \* argument of run_parallel: "none" or "on_progress"
    job,            \* the record JOBS[job_id]
    task_pc,        \* position of the thread executing run_render_task
    job_temp,       \* the directory TEMP_BASE / job_id
    smart_mode,     \* argument of run_render_task
    task_exc,       \* exception propagating to the except clause
    V2_AVAILABLE,   \* whether render_engine_v2 could be imported
    GLOBAL_STATS,   \* the job counters of the server
    phase_hist,     \* history: the values assigned to job["phase"]
    last_poll       \* what the latest GET /jobs/{job_id} returned

\* main of render_engine.py
VARIABLES
    args,           \* the parsed command line
    cli_pc,         \* position of the thread executing main
    temp_dir,       \* the directory .temp_chunks
    serial_time,    \* local of main
    serial_calls,   \* number of run_serial_baseline invocations
    worker_counts,  \* local of run_scaling_sweep
    sweep_w,        \* local w of run_scaling_sweep
    sweep_results,  \* the dict run_scaling_sweep fills
    sweep_runs,     \* history: the num_workers of each run_parallel call
    files,          \* state of the files main and the sweep write
    cli_exc,        \* exception propagating out of main
    exit_code,      \* exit status of the process
    analysis        \* what display_results reports of the Amdahl analysis

\* server.py with several jobs
VARIABLES
    JOBS,           \* job id -> index in job_dicts of the dict stored for it
    job_dicts,      \* the dicts create_job has built, in creation order
    tasks,          \* the run_render_task calls scheduled, in creation order
    TEMP_BASE,      \* the job directories under .server_temp
    OUTPUT_DIR      \* the files under outputs

engine_vars == <<num_workers, duration, pc, num_chunks, chunks, fstate,
                 fvalue, results, arrival, pending_exc, chunk_paths,
                 concat_list, merge_rc, merge_ret, output_file, error,
                 returned, submits, calls, merge_calls>>
task_vars == <<progress_callback, task_pc, job_temp, smart_mode, task_exc,
               V2_AVAILABLE, GLOBAL_STATS, phase_hist, last_poll>>
cli_vars == <<args, cli_pc, temp_dir, serial_time, serial_calls,
              worker_counts, sweep_w, sweep_results, sweep_runs, files,
              cli_exc, exit_code, analysis>>
server_vars == <<JOBS, job_dicts, tasks, TEMP_BASE, OUTPUT_DIR>>
outer_vars == <<job, task_vars, cli_vars, server_vars>>

vars == <<engine_vars, outer_vars>>

ChunkIds == 0..(num_chunks - 1)

NoError == <<>>
NoFutures == [i \in {} |-> 0]
NoValue == [kind |-> "none", chunk_id |-> 0, success |-> FALSE,
            error |-> [kind |-> "none", val |-> 0]]

\* the locals of run_parallel before its first statement
EntryLocals ==
    /\ num_chunks = 0
    /\ chunks = <<>>
    /\ fstate = NoFutures
    /\ fvalue = NoFutures
    /\ results = <<>>
    /\ arrival = <<>>
    /\ pending_exc = NoError
    /\ chunk_paths = <<>>
    /\ concat_list = <<>>
    /\ merge_rc = [fast |-> "none", fallback |-> "none"]
    /\ merge_ret = "none"
    /\ output_file = "absent"
    /\ error = NoError
    /\ returned = <<>>
    /\ submits = NoFutures
    /\ calls = NoFutures
    /\ merge_calls = [fast |-> 0, fallback |-> 0]

\* the state on entry to run_parallel
EntryState == pc = "start" /\ EntryLocals

\* the record of a job that does not exist, the counters of a server that
\* has just started, the answer of a poll that was never made
NoSmartConf == [variant |-> "none", workers |-> 0, filter |-> "none"]
NoJob == [status |-> "none", phase |-> "none", progress |-> 0,
          output |-> "unset", error |-> NoError, workers |-> 0,
          filter_chain |-> "none", smart_config |-> NoSmartConf,
          comparison_report |-> "None", duration |-> "unset",
          projected_serial_time |-> "unset", engine_version |-> "none"]
NoStats == [total_jobs |-> 0, successful_jobs |-> 0, failed_jobs |-> 0]
NoPoll == [status |-> "none", phase |-> "none", progress |-> 0,
           output |-> "unset", error |-> NoError]
\* no job has been submitted
ServerIdle ==
    /\ JOBS = <<>>
    /\ job_dicts = <<>>
    /\ tasks = <<>>
    /\ TEMP_BASE = {}
    /\ OUTPUT_DIR = {}

\* run_parallel is not run by the server: there is no server state
JobIdle ==
    /\ ServerIdle
    /\ progress_callback = "none"
    /\ job = <<>>
    /\ task_pc = "none"
    /\ job_temp = "absent"
    /\ smart_mode = FALSE
    /\ task_exc = NoError
    /\ V2_AVAILABLE = FALSE
    /\ GLOBAL_STATS = <<>>
    /\ phase_hist = <<>>
    /\ last_poll = <<>>

\* the command line has not been run
NoArgs == [workers |-> 0, skip_serial |-> FALSE, sweep |-> FALSE,
           keep_temp |-> FALSE, export |-> FALSE]
NoSweepResults == [n \in {} |-> 0]
NoFiles == [output |-> "absent", export |-> "absent",
            sweep |-> NoSweepResults]
NotExited == 0 - 1
CliIdle ==
    /\ args = NoArgs
    /\ cli_pc = "none"
    /\ temp_dir = "absent"
    /\ serial_time = "None"
    /\ serial_calls = 0
    /\ worker_counts = <<>>
    /\ sweep_w = 0
    /\ sweep_results = NoSweepResults
    /\ sweep_runs = <<>>
    /\ files = NoFiles
    /\ cli_exc = NoError
    /\ exit_code = NotExited
    /\ analysis = <<>>

Init ==
    /\ num_workers \in 1..MaxWorkers
    /\ duration = FromInt(TestVideoDuration)
    /\ EntryState
    /\ JobIdle
    /\ CliIdle

\* ------------------------------------------------------------------------
\* The progress callback
\* ------------------------------------------------------------------------
\* the value run_parallel passes to progress_callback after completed of
\* total results have arrived: the percentage of completed segments, on a
\* scale that leaves 100 to the completed job
ProgressValue(completed, total) ==
    IF (100 * completed) \div total < 99 THEN (100 * completed) \div total
    ELSE 99

\* on_progress of run_render_task: job["progress"] = p
on_progress(j, p) == [j EXCEPT !.progress = p]

\* the call of progress_callback, when run_parallel was given one
ReportProgress(completed, total) ==
    job' = IF progress_callback = "none" THEN job
           ELSE on_progress(job, ProgressValue(completed, total))

\* ------------------------------------------------------------------------
\* run_parallel: planning and submission
\* ------------------------------------------------------------------------
\* lines 279-281 and the creation of the pool
RunParallelPlan ==
    /\ pc = "start"
    /\ LET n == NumChunks(num_workers)
       IN  /\ num_chunks' = n
           /\ chunks' = plan_chunks(duration, n)
           /\ fstate' = [i \in 0..(n - 1) |-> "unsubmitted"]
           /\ fvalue' = [i \in 0..(n - 1) |-> NoValue]
           /\ submits' = [i \in 0..(n - 1) |-> 0]
           /\ calls' = [i \in 0..(n - 1) |-> 0]
    /\ pc' = "submit"
    /\ UNCHANGED outer_vars
    /\ UNCHANGED <<num_workers, duration, results, arrival, pending_exc,
                   chunk_paths, concat_list, merge_rc, merge_ret, output_file,
                   error, returned, merge_calls>>

Unsubmitted == {i \in ChunkIds : fstate[i] = "unsubmitted"}
Pending     == {i \in ChunkIds : fstate[i] = "pending"}
Running     == {i \in ChunkIds : fstate[i] = "running"}
Finished    == {i \in ChunkIds : fstate[i] = "finished"}
Least(S)    == CHOOSE i \in S : \A j \in S : i <= j

\* one iteration of the dict comprehension: executor.submit for the next
\* chunk of the list; after the last one the as_completed loop starts
Submit ==
    /\ pc = "submit"
    /\ Unsubmitted # {}
    /\ LET i == Least(Unsubmitted)
       IN  /\ fstate' = [fstate EXCEPT ![i] = "pending"]
           /\ submits' = [submits EXCEPT ![i] = @ + 1]
           /\ pc' = IF Unsubmitted = {i} THEN "collect" ELSE "submit"
    /\ UNCHANGED outer_vars
    /\ UNCHANGED <<num_workers, duration, num_chunks, chunks, fvalue, results,
                   arrival, pending_exc, chunk_paths, concat_list, merge_rc,
                   merge_ret, output_file, error, returned, calls,
                   merge_calls>>

\* ------------------------------------------------------------------------
\* The process pool and process_chunk
\* ------------------------------------------------------------------------
\* (variant: a pool that starts a process for every queued item)
PoolUnbounded == TRUE

\* ProcessPoolExecutor(max_workers=num_workers): a worker process is idle
PoolHasIdleWorker == Cardinality(Running) < num_workers

\* (variant: once a future has raised, queued work items are never started)
WorkerStartUnlessRaised ==
    /\ Pending # {}
    /\ PoolHasIdleWorker
    /\ pending_exc = NoError
    /\ LET i == Least(Pending)
       IN  /\ fstate' = [fstate EXCEPT ![i] = "running"]
           /\ calls' = [calls EXCEPT ![i] = @ + 1]
    /\ UNCHANGED outer_vars
    /\ UNCHANGED <<num_workers, duration, pc, num_chunks, chunks, fvalue,
                   results, arrival, pending_exc, chunk_paths, concat_list,
                   merge_rc, merge_ret, output_file, error, returned, submits,
                   merge_calls>>

\* an idle worker process takes the oldest queued work item and calls
\* process_chunk, which starts ffmpeg
WorkerStart ==
    /\ Pending # {}
    /\ PoolHasIdleWorker
    /\ LET i == Least(Pending)
       IN  /\ fstate' = [fstate EXCEPT ![i] = "running"]
           /\ calls' = [calls EXCEPT ![i] = @ + 1]
    /\ UNCHANGED outer_vars
    /\ UNCHANGED <<num_workers, duration, pc, num_chunks, chunks, fvalue,
                   results, arrival, pending_exc, chunk_paths, concat_list,
                   merge_rc, merge_ret, output_file, error, returned, submits,
                   merge_calls>>

\* what the future of chunk i holds when process_chunk ends with outcome o:
\*   "ok"     ffmpeg exited 0: ChunkResult(success=True)
\*   "failed" CalledProcessError: ChunkResult(success=False, error=stderr)
\*   "raised" any other exception of process_chunk, which the future re-raises
\* (ChunkResult.elapsed is a wall-clock time and is left out)
ChunkOutcomes == {"ok", "failed", "raised"}
process_chunk(i, o) ==
    IF o = "ok"
    THEN [kind |-> "result", chunk_id |-> i, success |-> TRUE,
          error |-> [kind |-> "none", val |-> 0]]
    ELSE IF o = "failed"
    THEN [kind |-> "result", chunk_id |-> i, success |-> FALSE,
          error |-> [kind |-> "stderr", val |-> i]]
    ELSE [kind |-> "exception", chunk_id |-> i, success |-> FALSE,
          error |-> [kind |-> "worker_exception", val |-> i]]

\* (variant: a failed encode is queued again instead of being reported)
WorkerFinishRetrying(i, o) ==
    /\ i \in Running
    /\ fstate' = [fstate EXCEPT ![i] = IF o = "failed" THEN "pending"
                                      ELSE "finished"]
    /\ fvalue' = [fvalue EXCEPT ![i] = IF o = "failed" THEN @
                                      ELSE process_chunk(i, o)]
    /\ UNCHANGED outer_vars
    /\ UNCHANGED <<num_workers, duration, pc, num_chunks, chunks, results,
                   arrival, pending_exc, chunk_paths, concat_list, merge_rc,
                   merge_ret, output_file, error, returned, submits, calls,
                   merge_calls>>

\* process_chunk returns in the worker process; its future is done
WorkerFinish(i, o) ==
    /\ i \in Running
    /\ fstate' = [fstate EXCEPT ![i] = "finished"]
    /\ fvalue' = [fvalue EXCEPT ![i] = process_chunk(i, o)]
    /\ UNCHANGED outer_vars
    /\ UNCHANGED <<num_workers, duration, pc, num_chunks, chunks, results,
                   arrival, pending_exc, chunk_paths, concat_list, merge_rc,
                   merge_ret, output_file, error, returned, submits, calls,
                   merge_calls>>

\* ------------------------------------------------------------------------
\* run_parallel: collecting the results
\* ------------------------------------------------------------------------
Yielded == {arrival[k] : k \in DOMAIN arrival}

ChunkResult(v) == [chunk_id |-> v.chunk_id, success |-> v.success,
                   error |-> v.error]

\* one iteration of `for future in as_completed(futures)`: a finished future
\* not yet seen is yielded; future.result() returns the ChunkResult, which is
\* appended, or re-raises the exception of the worker, which leaves the loop
Collect(i) ==
    /\ pc = "collect"
    /\ i \in Finished \ Yielded
    /\ arrival' = Append(arrival, i)
    /\ IF fvalue[i].kind = "result"
       THEN /\ results' = Append(results, ChunkResult(fvalue[i]))
            /\ pc' = IF Len(results') = num_chunks THEN "pool_exit"
                     ELSE "collect"
            /\ ReportProgress(Len(results'), num_chunks)
            /\ UNCHANGED pending_exc
       ELSE /\ pending_exc' = <<fvalue[i].error>>
            /\ pc' = "pool_exit"
            /\ UNCHANGED <<results, job>>
    /\ UNCHANGED <<task_vars, cli_vars, server_vars>>
    /\ UNCHANGED <<num_workers, duration, num_chunks, chunks, fstate, fvalue,
                   chunk_paths, concat_list, merge_rc, merge_ret, output_file,
                   error, returned, submits, calls, merge_calls>>

\* results.sort(key=lambda r: r.chunk_id): a stable sort by chunk id
RECURSIVE InsertByChunkId(_, _)
InsertByChunkId(r, s) ==
    IF s = <<>> THEN <<r>>
    ELSE IF r.chunk_id < Head(s).chunk_id THEN <<r>> \o s
    ELSE <<Head(s)>> \o InsertByChunkId(r, Tail(s))

\* (variant: the results are left in arrival order)
ArrivalOrder(s) == s

RECURSIVE SortByChunkId(_)
SortByChunkId(s) ==
    IF s = <<>> THEN <<>>
    ELSE InsertByChunkId(Last(s), SortByChunkId(Front(s)))

\* (variant: no result is ever taken for a failure)
FailedResultsNone(rs) == <<>>

\* failed = [r for r in results if not r.success]
FailedResults(rs) == SelectSeq(rs, LAMBDA r : ~r.success)

\* RuntimeError(f"{len(failed)} chunks failed"): the message holds the number
\* of failed chunks and nothing else
ChunksFailedError(failed) == <<[kind |-> "count", val |-> Len(failed)]>>

\* RuntimeError("Merge failed")
MergeFailedError == <<[kind |-> "merge_failed", val |-> 0]>>

\* chunk_paths = [chunks[r.chunk_id].output_path for r in results]
ChunkPaths(rs) == [k \in DOMAIN rs |-> chunks[rs[k].chunk_id + 1].output_path]

\* the concat list: one line  file '<absolute path>'  per path, in order
ManifestLine(path) == [directive |-> "file", path |-> path]
Manifest(paths) == [k \in DOMAIN paths |-> ManifestLine(paths[k])]

\* (variant: shutdown(wait=False), the pool is left without waiting)
ExecutorShutdownNoWait == TRUE

\* `with ProcessPoolExecutor(...)` exits through shutdown(wait=True), which
\* returns once every submitted work item has run to its end
ExecutorShutdownDone == Finished = ChunkIds

\* Leaving the pool, then lines 336-346 up to the first ffmpeg concat call:
\* a pending exception propagates; otherwise the results are sorted and
\* checked, and merge_chunks writes the concat list and starts ffmpeg
PoolExit ==
    /\ pc = "pool_exit"
    /\ ExecutorShutdownDone
    /\ IF pending_exc # NoError
       THEN /\ error' = pending_exc
            /\ pc' = "raised"
            /\ UNCHANGED <<results, chunk_paths, concat_list, merge_calls>>
       ELSE /\ results' = SortByChunkId(results)
            /\ IF FailedResults(results') # <<>>
               THEN /\ error' = ChunksFailedError(FailedResults(results'))
                    /\ pc' = "raised"
                    /\ UNCHANGED <<chunk_paths, concat_list, merge_calls>>
               ELSE /\ chunk_paths' = ChunkPaths(results')
                    /\ concat_list' = Manifest(chunk_paths')
                    /\ merge_calls' = [merge_calls EXCEPT !.fast = @ + 1]
                    /\ pc' = "merge_fast"
                    /\ UNCHANGED error
    /\ UNCHANGED outer_vars
    /\ UNCHANGED <<num_workers, duration, num_chunks, chunks, fstate, fvalue,
                   arrival, pending_exc, merge_rc, merge_ret, output_file,
                   returned, submits, calls>>

\* ------------------------------------------------------------------------
\* merge_chunks
\* ------------------------------------------------------------------------
\* What an ffmpeg concat invocation leaves at output_path: the complete file
\* when it exits 0; when it exits non-zero, either what was there before or a
\* partial file, depending on how far it got.  Nothing in merge_chunks or
\* run_parallel removes the file afterwards.
FfmpegRcs == {"ok", "failed"}
OutputAfter(rc, before) ==
    IF rc = "ok" THEN {"complete"} ELSE {before, "partial"}

\* (variant: the re-encode runs whatever the stream copy did)
FallbackAlways(fast_rc) == TRUE

\* `except subprocess.CalledProcessError` of the stream-copy attempt
FallbackNeeded(fast_rc) == fast_rc = "failed"

\* the value merge_chunks returns
MergeSuccess(rc) == rc.fast = "ok" \/ rc.fallback = "ok"

\* the stream-copy ffmpeg invocation ends: on success merge_chunks returns
\* True and run_parallel returns its results, otherwise the re-encode
\* invocation starts
MergeFast(rc) ==
    /\ pc = "merge_fast"
    /\ merge_rc' = [merge_rc EXCEPT !.fast = rc]
    /\ output_file' \in OutputAfter(rc, output_file)
    /\ IF FallbackNeeded(rc)
       THEN /\ merge_calls' = [merge_calls EXCEPT !.fallback = @ + 1]
            /\ pc' = "merge_fallback"
            /\ UNCHANGED <<merge_ret, returned>>
       ELSE /\ merge_ret' = "True"
            /\ pc' = "returned"
            /\ returned' = results
            /\ UNCHANGED merge_calls
    /\ UNCHANGED outer_vars
    /\ UNCHANGED <<num_workers, duration, num_chunks, chunks, fstate, fvalue,
                   results, arrival, pending_exc, chunk_paths, concat_list,
                   error, submits, calls>>

\* the re-encode ffmpeg invocation ends: merge_chunks returns its verdict and
\* run_parallel returns its results or raises "Merge failed"
MergeFallback(rc) ==
    /\ pc = "merge_fallback"
    /\ merge_rc' = [merge_rc EXCEPT !.fallback = rc]
    /\ output_file' \in OutputAfter(rc, output_file)
    /\ IF MergeSuccess(merge_rc')
       THEN /\ merge_ret' = "True"
            /\ pc' = "returned"
            /\ returned' = results
            /\ UNCHANGED error
       ELSE /\ merge_ret' = "False"
            /\ pc' = "raised"
            /\ error' = MergeFailedError
            /\ UNCHANGED returned
    /\ UNCHANGED outer_vars
    /\ UNCHANGED <<num_workers, duration, num_chunks, chunks, fstate, fvalue,
                   results, arrival, pending_exc, chunk_paths, concat_list,
                   submits, calls, merge_calls>>

\* ------------------------------------------------------------------------
\* Specification of one run of run_parallel
\* ------------------------------------------------------------------------
Next ==
    \/ RunParallelPlan
    \/ Submit
    \/ WorkerStart
    \/ \E i \in ChunkIds, o \in ChunkOutcomes : WorkerFinish(i, o)
    \/ \E i \in ChunkIds : Collect(i)
    \/ PoolExit
    \/ \E rc \in FfmpegRcs : MergeFast(rc)
    \/ \E rc \in FfmpegRcs : MergeFallback(rc)

Spec == Init /\ [][Next]_vars

\* the thread of run_parallel never blocks in the submission loop
FairSpec == Spec /\ WF_vars(Submit)

\* ------------------------------------------------------------------------
\* Vocabulary of the properties
\* ------------------------------------------------------------------------
\* merge_chunks has been called
MergeInvoked == chunk_paths # <<>>
\* chunks whose encode has ended without success
FailedIds == {i \in ChunkIds : fvalue[i].kind # "none" /\ ~fvalue[i].success}
\* chunks whose encode reported a failure in its ChunkResult
ReportedFailedIds == {i \in FailedIds : fvalue[i].kind = "result"}
Terminal == pc \in {"returned", "raised"}
IdOrderPaths == [k \in 1..num_chunks |-> ChunkPath(k - 1)]

\* ------------------------------------------------------------------------
\* C1
\* ------------------------------------------------------------------------
\* C1: merge_chunks is invoked only after a result has been collected for
\* every planned segment id and all of them report success; once a segment
\* has failed the run never returns normally, merge is never invoked and no
\* output file is produced.
C1_MergeOnlyAfterAllSucceeded ==
    /\ MergeInvoked =>
          /\ {results[k].chunk_id : k \in DOMAIN results} = ChunkIds
          /\ Len(results) = num_chunks
          /\ \A k \in DOMAIN results : results[k].success
    /\ FailedIds # {} =>
          /\ ~MergeInvoked
          /\ merge_calls = [fast |-> 0, fallback |-> 0]
          /\ output_file = "absent"
          /\ pc # "returned"
          /\ (Terminal => error # NoError)

C1_Witness ==
    /\ pc = "raised"
    /\ num_chunks = 4
    /\ FailedIds = {3}
    /\ Len(results) = num_chunks
    /\ ~MergeInvoked

\* ------------------------------------------------------------------------
\* C2
\* ------------------------------------------------------------------------
\* C2: at the moment run_parallel raises, every dispatched segment task has
\* run once and returned (none was cancelled, none is still running).
C2_RaisesAfterAllWorkDone ==
    pc = "raised" =>
        \A i \in ChunkIds : fstate[i] = "finished" /\ calls[i] = 1
                            /\ fvalue[i].kind # "none"

\* a failure that was known while a sibling had not yet been collected
C2_Witness ==
    /\ pc = "raised"
    /\ FailedIds # {}
    /\ Len(arrival) < num_chunks
    /\ \A i \in ChunkIds : fstate[i] = "finished"

\* ------------------------------------------------------------------------
\* C3
\* ------------------------------------------------------------------------
\* C3: whatever the completion order, the paths handed to merge_chunks and
\* the lines of the manifest are those of segments 0, 1, ..., C-1 in this
\* order, each exactly once.
C3_MergeInIdOrder ==
    MergeInvoked =>
        /\ chunk_paths = IdOrderPaths
        /\ concat_list = [k \in 1..num_chunks |-> ManifestLine(ChunkPath(k - 1))]
        /\ \A k \in 1..num_chunks : results[k].chunk_id = k - 1

\* merged although the results arrived in descending id order
C3_Witness ==
    /\ MergeInvoked
    /\ num_chunks = 4
    /\ arrival = <<3, 2, 1, 0>>
    /\ chunk_paths = IdOrderPaths

\* ------------------------------------------------------------------------
\* C6
\* ------------------------------------------------------------------------
AllSubmitted == pc # "start" /\ \A i \in ChunkIds : submits[i] = 1

\* C6: never more than W segment encodes run at the same time, and once the
\* segments are planned every one of them is eventually dispatched to the
\* pool.
C6_BoundedPool ==
    /\ [](Cardinality(Running) <= num_workers)
    /\ (pc = "submit") ~> AllSubmitted

\* the pool is full while tasks are still queued
C6_Witness ==
    /\ Cardinality(Running) = num_workers
    /\ Pending # {}
    /\ num_workers = 3

\* ------------------------------------------------------------------------
\* C7
\* ------------------------------------------------------------------------
\* C7: within one run each segment task is submitted once and encoded at
\* most once, exactly once when the run has ended, also when it failed; a
\* run that has raised is not started again.
C7_NoRetry ==
    /\ [](\A i \in ChunkIds : submits[i] <= 1 /\ calls[i] <= 1)
    /\ [](Terminal => \A i \in ChunkIds : submits[i] = 1 /\ calls[i] = 1)
    /\ [][pc = "raised" => pc' = "raised" /\ calls' = calls
                           /\ submits' = submits
                           /\ merge_calls' = merge_calls]_vars

C7_Witness ==
    /\ pc = "raised"
    /\ ReportedFailedIds # {}
    /\ \A i \in ChunkIds : submits[i] = 1 /\ calls[i] = 1

\* ------------------------------------------------------------------------
\* C8
\* ------------------------------------------------------------------------
\* C8: the stream copy is attempted first; the re-encode is invoked if and
\* only if the stream copy failed, at most once; merge_chunks returns True
\* if and only if one of the two attempts succeeded.
C8_FastThenFallback ==
    /\ merge_calls.fast <= 1 /\ merge_calls.fallback <= 1
    /\ MergeInvoked <=> merge_calls.fast = 1
    /\ merge_calls.fallback = 1 <=> merge_rc.fast = "failed"
    /\ merge_rc.fallback # "none" => merge_calls.fallback = 1
    /\ merge_ret = "True" <=>
          (merge_rc.fast = "ok" \/ merge_rc.fallback = "ok")
    /\ merge_ret = "False" <=>
          (merge_rc.fast = "failed" /\ merge_rc.fallback = "failed")
    /\ merge_ret = "True" <=> pc = "returned"

C8_Witness ==
    /\ pc = "returned"
    /\ merge_rc = [fast |-> "failed", fallback |-> "ok"]
    /\ merge_ret = "True"

\* ------------------------------------------------------------------------
\* C9
\* ------------------------------------------------------------------------
\* C9: if both concatenations fail, run_parallel raises the merge error and
\* no partial output file is left at the destination path.
C9_NoPartialOutput ==
    (merge_rc.fast = "failed" /\ merge_rc.fallback = "failed") =>
        /\ pc = "raised"
        /\ error = MergeFailedError
        /\ output_file = "absent"

\* ------------------------------------------------------------------------
\* C10
\* ------------------------------------------------------------------------
\* what an error message says
MentionedIds(msg) ==
    {msg[k].val : k \in {j \in DOMAIN msg : msg[j].kind = "chunk_id"}}
DiagnosticsOf(msg) ==
    {msg[k].val : k \in {j \in DOMAIN msg : msg[j].kind = "stderr"}}

\* C10: when segments fail, the error raised by run_parallel names every
\* failed segment id and carries the captured diagnostic text of at least
\* the first failed segment.
C10_ErrorNamesFailedSegments ==
    (pc = "raised" /\ ReportedFailedIds # {}) =>
        /\ ReportedFailedIds \subseteq MentionedIds(error)
        /\ Least(ReportedFailedIds) \in DiagnosticsOf(error)

\* ------------------------------------------------------------------------
\* Specification of the planner alone: the segment count of run_parallel and
\* plan_chunks on durations 1.0 .. MaxDuration and 1 .. MaxPlanChunks chunks
\* ------------------------------------------------------------------------
PlanInit ==
    /\ num_workers \in 1..MaxPlanWorkers
    /\ duration \in {FromInt(d) : d \in 1..MaxDuration}
    /\ EntryState
    /\ JobIdle
    /\ CliIdle

\* a call plan_chunks(input_path, duration, c, temp_dir)
CallPlanChunks(c) ==
    /\ pc = "start"
    /\ num_chunks' = c
    /\ chunks' = plan_chunks(duration, c)
    /\ pc' = "planned"
    /\ UNCHANGED outer_vars
    /\ UNCHANGED <<num_workers, duration, fstate, fvalue, results, arrival,
                   pending_exc, chunk_paths, concat_list, merge_rc, merge_ret,
                   output_file, error, returned, submits, calls, merge_calls>>

PlanNext ==
    \/ RunParallelPlan
    \/ \E c \in 1..MaxPlanChunks : CallPlanChunks(c)

SpecPlan == PlanInit /\ [][PlanNext]_vars

\* ------------------------------------------------------------------------
\* C4
\* ------------------------------------------------------------------------
\* 1.5 * W rounded to the nearest integer, halves upwards
RoundedOneAndAHalf(w) == (3 * w + 1) \div 2

\* C4 as stated: for every worker count W >= 1 run_parallel plans
\* C = max(W, round(1.5 * W)) segments, and W = 4 gives 6.
C4_Original ==
    pc = "submit" =>
        /\ num_chunks = Max(num_workers, RoundedOneAndAHalf(num_workers))
        /\ (num_workers = 4 => num_chunks = 6)

\* C4 amended: for every worker count W >= 1 run_parallel plans
\* C = max(W, floor(1.5 * W)) segments, that is the integer C with
\* C <= 1.5 * W < C + 1, which is never below W; W = 4 gives 6.
C4_SegmentCountTruncates ==
    pc = "submit" =>
        /\ 2 * num_chunks <= 3 * num_workers
        /\ 3 * num_workers < 2 * num_chunks + 2
        /\ num_chunks >= num_workers
        /\ Len(chunks) = num_chunks
        /\ (num_workers = 4 => num_chunks = 6)

C4_Witness == pc = "submit" /\ num_workers = 4 /\ num_chunks = 6

\* ------------------------------------------------------------------------
\* C5
\* ------------------------------------------------------------------------
Planned == pc \in {"planned", "submit"}

\* C5: plan_chunks returns C tasks with ids 0..C-1 in order, the first
\* starting at 0, each starting where the previous one ends (its start plus
\* its duration), the last ending exactly at D, every task but the last of
\* duration D/C.
C5_PlanPartitionsDuration ==
    Planned =>
        /\ Len(chunks) = num_chunks
        /\ \A k \in 1..num_chunks : chunks[k].chunk_id = k - 1
        /\ chunks[1].start = FZero
        /\ \A k \in 2..num_chunks :
              chunks[k].start = FAdd(chunks[k - 1].start, chunks[k - 1].duration)
        /\ FAdd(chunks[num_chunks].start, chunks[num_chunks].duration) = duration
        /\ \A k \in 1..(num_chunks - 1) :
              chunks[k].duration = FDivInt(duration, num_chunks)

\* ------------------------------------------------------------------------
\* server.py: one job, from POST /jobs to the end of run_render_task
\* ------------------------------------------------------------------------
EngineVersions == {"v1", "v2"}

\* create_job, lines 425-437: the record stored for a new job (output,
\* error, duration and projected_serial_time are absent keys, None in the
\* response)
NewJob(workers, engine_version) ==
    [status |-> "queued", phase |-> "queued", progress |-> 0,
     output |-> "unset", error |-> NoError, workers |-> workers,
     filter_chain |-> "requested", smart_config |-> NoSmartConf,
     comparison_report |-> "None", duration |-> "unset",
     projected_serial_time |-> "unset", engine_version |-> engine_version]

\* the server is up and no job has been submitted yet
JobInit ==
    /\ num_workers = 0
    /\ duration = FromInt(TestVideoDuration)
    /\ pc = "not_called"
    /\ EntryLocals
    /\ ServerIdle
    /\ progress_callback = "none"
    /\ job = NoJob
    /\ task_pc = "none"
    /\ job_temp = "absent"
    /\ smart_mode = FALSE
    /\ task_exc = NoError
    /\ V2_AVAILABLE \in BOOLEAN
    /\ GLOBAL_STATS = NoStats
    /\ phase_hist = <<>>
    /\ last_poll = NoPoll
    /\ CliIdle

\* what no step of run_render_task changes
TaskFrame == UNCHANGED <<cli_vars, server_vars, smart_mode, V2_AVAILABLE,
                         last_poll>>

\* (variant: the request is accepted whether or not v2 can be imported)
create_job_unchecked(workers, smart, engine_version) ==
    /\ task_pc = "none"
    /\ job' = NewJob(workers, engine_version)
    /\ num_workers' = workers
    /\ smart_mode' = smart
    /\ GLOBAL_STATS' = [GLOBAL_STATS EXCEPT !.total_jobs = @ + 1]
    /\ phase_hist' = <<"queued">>
    /\ task_pc' = "queued"
    /\ UNCHANGED <<duration, pc, num_chunks, chunks, fstate, fvalue, results,
                   arrival, pending_exc, chunk_paths, concat_list, merge_rc,
                   merge_ret, output_file, error, returned, submits, calls,
                   merge_calls>>
    /\ UNCHANGED <<cli_vars, server_vars, progress_callback, job_temp,
                   task_exc, V2_AVAILABLE, last_poll>>

\* POST /jobs with a request for `workers` workers: a request for v2 when it
\* cannot be imported is answered 400; otherwise the record is stored, the
\* job counted and run_render_task scheduled with the request's values
create_job(workers, smart, engine_version) ==
    /\ task_pc = "none"
    /\ IF engine_version = "v2" /\ ~V2_AVAILABLE
       THEN /\ task_pc' = "rejected"
            /\ UNCHANGED <<job, num_workers, smart_mode, GLOBAL_STATS,
                           phase_hist>>
       ELSE /\ job' = NewJob(workers, engine_version)
            /\ num_workers' = workers
            /\ smart_mode' = smart
            /\ GLOBAL_STATS' = [GLOBAL_STATS EXCEPT !.total_jobs = @ + 1]
            /\ phase_hist' = <<"queued">>
            /\ task_pc' = "queued"
    /\ UNCHANGED <<duration, pc, num_chunks, chunks, fstate, fvalue, results,
                   arrival, pending_exc, chunk_paths, concat_list, merge_rc,
                   merge_ret, output_file, error, returned, submits, calls,
                   merge_calls>>
    /\ UNCHANGED <<cli_vars, server_vars, progress_callback, job_temp,
                   task_exc, V2_AVAILABLE, last_poll>>

\* the fields of the job record a status poll reports
Snapshot(j) == [status |-> j.status, phase |-> j.phase,
                progress |-> j.progress, output |-> j.output,
                error |-> j.error]

\* GET /jobs/{job_id}: returns the record as it is at that moment
get_job ==
    /\ job # NoJob
    /\ last_poll # Snapshot(job)
    /\ last_poll' = Snapshot(job)
    /\ UNCHANGED <<engine_vars, cli_vars, server_vars, job,
                   progress_callback, task_pc, job_temp, smart_mode, task_exc,
                   V2_AVAILABLE, GLOBAL_STATS, phase_hist>>

\* a statement job[field] = value of run_render_task
JobWrite(field, value) ==
    /\ job' = [job EXCEPT ![field] = value]
    /\ phase_hist' = IF field = "phase" THEN Append(phase_hist, value)
                     ELSE phase_hist
    /\ TaskFrame
    /\ UNCHANGED <<engine_vars, progress_callback, job_temp, task_exc,
                   GLOBAL_STATS>>

\* a call of a collaborator that returns (o = "ok") or raises
Outcomes == {"ok", "raised"}
ExcOf(what) == <<[kind |-> what, val |-> 0]>>

\* ------------------------------------------------------------------------
\* run_render_task
\* ------------------------------------------------------------------------
\* lines 233-234: the task looks its record up and marks it processing
TaskStart ==
    /\ task_pc = "queued"
    /\ task_pc' = "set_analyzing"
    /\ JobWrite("status", "processing")

\* line 235
SetAnalyzing ==
    /\ task_pc = "set_analyzing"
    /\ task_pc' = "mkdir"
    /\ JobWrite("phase", "analyzing")

\* lines 237-240: job_temp.mkdir(exist_ok=True), before the try statement
MakeJobTemp ==
    /\ task_pc = "mkdir"
    /\ job_temp' = "exists"
    /\ task_pc' = "analyze"
    /\ TaskFrame
    /\ UNCHANGED <<engine_vars, job, progress_callback, task_exc,
                   GLOBAL_STATS, phase_hist>>

\* (variant: an exception of the probe is swallowed and the task goes on)
AnalyzeIgnoringFailure(o) ==
    /\ task_pc = "analyze"
    /\ task_exc' = IF o = "ok" THEN task_exc ELSE ExcOf("analyze_video")
    /\ task_pc' = IF smart_mode THEN "smart" ELSE "set_benchmarking"
    /\ TaskFrame
    /\ UNCHANGED <<engine_vars, job, progress_callback, job_temp,
                   GLOBAL_STATS, phase_hist>>

\* (variant: the configurator is applied whether or not smart mode is on)
AnalyzeAlwaysSmart(o) ==
    /\ task_pc = "analyze"
    /\ IF o = "ok"
       THEN /\ task_pc' = "smart"
            /\ UNCHANGED task_exc
       ELSE /\ task_exc' = ExcOf("analyze_video")
            /\ task_pc' = "except"
    /\ TaskFrame
    /\ UNCHANGED <<engine_vars, job, progress_callback, job_temp,
                   GLOBAL_STATS, phase_hist>>

\* line 245: analyze_video(input_path)
Analyze(o) ==
    /\ task_pc = "analyze"
    /\ IF o = "ok"
       THEN /\ task_pc' = IF smart_mode THEN "smart" ELSE "set_benchmarking"
            /\ UNCHANGED task_exc
       ELSE /\ task_exc' = ExcOf("analyze_video")
            /\ task_pc' = "except"
    /\ TaskFrame
    /\ UNCHANGED <<engine_vars, job, progress_callback, job_temp,
                   GLOBAL_STATS, phase_hist>>

\* the configurator lines 249-254 select
SmartVariant == IF job.engine_version = "v2" /\ V2_AVAILABLE THEN "v2"
                ELSE "v1"

\* lines 248-258: the selected configurator returns a worker count and a
\* filter chain, which replace the locals workers and filter_chain, or raises
SmartConfig(o, w) ==
    /\ task_pc = "smart"
    /\ IF o = "ok"
       THEN /\ num_workers' = w
            /\ task_pc' = "set_workers"
            /\ UNCHANGED task_exc
       ELSE /\ task_exc' = ExcOf("smart_config")
            /\ task_pc' = "except"
            /\ UNCHANGED num_workers
    /\ TaskFrame
    /\ UNCHANGED <<duration, pc, num_chunks, chunks, fstate, fvalue, results,
                   arrival, pending_exc, chunk_paths, concat_list, merge_rc,
                   merge_ret, output_file, error, returned, submits, calls,
                   merge_calls>>
    /\ UNCHANGED <<job, progress_callback, job_temp, GLOBAL_STATS, phase_hist>>

\* lines 261-263
SetWorkers ==
    /\ task_pc = "set_workers"
    /\ task_pc' = "set_filter"
    /\ JobWrite("workers", num_workers)
SetFilterChain ==
    /\ task_pc = "set_filter"
    /\ task_pc' = "set_smart_config"
    /\ JobWrite("filter_chain", "smart")
SetSmartConfig ==
    /\ task_pc = "set_smart_config"
    /\ task_pc' = "set_benchmarking"
    /\ JobWrite("smart_config", [variant |-> SmartVariant,
                                 workers |-> num_workers,
                                 filter  |-> "smart"])

\* line 266: executed for every job, no argument of the task selects it
SetBenchmarking ==
    /\ task_pc = "set_benchmarking"
    /\ task_pc' = "benchmark"
    /\ JobWrite("phase", "benchmarking")

\* lines 269-275: benchmark_serial encodes a sample; the projection is stored
Benchmark(o) ==
    /\ task_pc = "benchmark"
    /\ IF o = "ok"
       THEN /\ job' = [job EXCEPT !.projected_serial_time = "set"]
            /\ task_pc' = "set_parallel"
            /\ UNCHANGED task_exc
       ELSE /\ task_exc' = ExcOf("benchmark_serial")
            /\ task_pc' = "except"
            /\ UNCHANGED job
    /\ TaskFrame
    /\ UNCHANGED <<engine_vars, progress_callback, job_temp, GLOBAL_STATS,
                   phase_hist>>

\* line 283
SetParallel ==
    /\ task_pc = "set_parallel"
    /\ task_pc' = "call_parallel"
    /\ JobWrite("phase", "parallel")

\* lines 285-294: run_parallel is entered with the local workers and the
\* callback on_progress
CallRunParallel ==
    /\ task_pc = "call_parallel"
    /\ pc = "not_called"
    /\ pc' = "start"
    /\ progress_callback' = "on_progress"
    /\ task_pc' = "in_parallel"
    /\ TaskFrame
    /\ UNCHANGED <<num_workers, duration, num_chunks, chunks, fstate, fvalue,
                   results, arrival, pending_exc, chunk_paths, concat_list,
                   merge_rc, merge_ret, output_file, error, returned, submits,
                   calls, merge_calls>>
    /\ UNCHANGED <<job, job_temp, task_exc, GLOBAL_STATS, phase_hist>>

\* line 296, once run_parallel has returned
SetStatusCompleted ==
    /\ task_pc = "in_parallel"
    /\ pc = "returned"
    /\ task_pc' = "set_phase_completed"
    /\ JobWrite("status", "completed")

\* lines 297-300
SetPhaseCompleted ==
    /\ task_pc = "set_phase_completed"
    /\ task_pc' = "set_progress"
    /\ JobWrite("phase", "completed")
SetProgressCompleted ==
    /\ task_pc = "set_progress"
    /\ task_pc' = "set_output"
    /\ JobWrite("progress", 100)
SetOutput ==
    /\ task_pc = "set_output"
    /\ task_pc' = "set_duration"
    /\ JobWrite("output", "set")
SetDuration ==
    /\ task_pc = "set_duration"
    /\ task_pc' = "report"
    /\ JobWrite("duration", "set")

\* lines 301-305: generate_comparison_report returns the report, or raises
\* (os.path.getsize of a file that is gone)
Report(o) ==
    /\ task_pc = "report"
    /\ IF o = "ok"
       THEN /\ job' = [job EXCEPT !.comparison_report = "set"]
            /\ task_pc' = "stats"
            /\ UNCHANGED task_exc
       ELSE /\ task_exc' = ExcOf("comparison_report")
            /\ task_pc' = "except"
            /\ UNCHANGED job
    /\ TaskFrame
    /\ UNCHANGED <<engine_vars, progress_callback, job_temp, GLOBAL_STATS,
                   phase_hist>>

\* lines 308-310
CountSuccess ==
    /\ task_pc = "stats"
    /\ GLOBAL_STATS' = [GLOBAL_STATS EXCEPT !.successful_jobs = @ + 1]
    /\ task_pc' = "finally"
    /\ TaskFrame
    /\ UNCHANGED <<engine_vars, job, progress_callback, job_temp, task_exc,
                   phase_hist>>

\* the exception of run_parallel reaches `except Exception as e`
RunParallelRaised ==
    /\ task_pc = "in_parallel"
    /\ pc = "raised"
    /\ task_exc' = error
    /\ task_pc' = "except"
    /\ TaskFrame
    /\ UNCHANGED <<engine_vars, job, progress_callback, job_temp,
                   GLOBAL_STATS, phase_hist>>

\* (variant: a failed job is also reset to the start of the progress scale)
ExceptStatusResetting ==
    /\ task_pc = "except"
    /\ job' = [job EXCEPT !.status = "failed", !.progress = 0]
    /\ task_pc' = "except_phase"
    /\ TaskFrame
    /\ UNCHANGED <<engine_vars, progress_callback, job_temp, task_exc,
                   GLOBAL_STATS, phase_hist>>

\* line 313
ExceptStatus ==
    /\ task_pc = "except"
    /\ task_pc' = "except_phase"
    /\ JobWrite("status", "failed")

\* (variant: a failed job is put back at the start of the phase sequence)
ExceptPhaseRequeued ==
    /\ task_pc = "except_phase"
    /\ task_pc' = "except_error"
    /\ JobWrite("phase", "queued")

\* line 314
ExceptPhase ==
    /\ task_pc = "except_phase"
    /\ task_pc' = "except_error"
    /\ JobWrite("phase", "completed")

\* line 315: job["error"] = str(e)
ExceptError ==
    /\ task_pc = "except_error"
    /\ task_pc' = "except_stats"
    /\ JobWrite("error", task_exc)

\* line 316
CountFailure ==
    /\ task_pc = "except_stats"
    /\ GLOBAL_STATS' = [GLOBAL_STATS EXCEPT !.failed_jobs = @ + 1]
    /\ task_pc' = "finally"
    /\ TaskFrame
    /\ UNCHANGED <<engine_vars, job, progress_callback, job_temp, task_exc,
                   phase_hist>>

\* (variant: the directory is removed only at the end of the try block)
CleanupOnSuccessOnly ==
    /\ task_pc = "finally"
    /\ job_temp' = IF task_exc = NoError THEN "absent" ELSE job_temp
    /\ task_pc' = "exited"
    /\ TaskFrame
    /\ UNCHANGED <<engine_vars, job, progress_callback, task_exc,
                   GLOBAL_STATS, phase_hist>>

\* lines 321-324: the finally clause removes job_temp and the task ends
Cleanup ==
    /\ task_pc = "finally"
    /\ job_temp' = "absent"
    /\ task_pc' = "exited"
    /\ TaskFrame
    /\ UNCHANGED <<engine_vars, job, progress_callback, task_exc,
                   GLOBAL_STATS, phase_hist>>

JobNext ==
    \/ \E w \in 1..MaxJobWorkers, smart \in BOOLEAN, v \in EngineVersions :
          create_job(w, smart, v)
    \/ get_job
    \/ TaskStart
    \/ SetAnalyzing
    \/ MakeJobTemp
    \/ \E o \in Outcomes : Analyze(o)
    \/ \E o \in Outcomes, w \in 1..MaxJobWorkers : SmartConfig(o, w)
    \/ SetWorkers
    \/ SetFilterChain
    \/ SetSmartConfig
    \/ SetBenchmarking
    \/ \E o \in Outcomes : Benchmark(o)
    \/ SetParallel
    \/ CallRunParallel
    \/ RunParallelPlan
    \/ Submit
    \/ WorkerStart
    \/ \E i \in ChunkIds, o \in ChunkOutcomes : WorkerFinish(i, o)
    \/ \E i \in ChunkIds : Collect(i)
    \/ PoolExit
    \/ \E rc \in FfmpegRcs : MergeFast(rc)
    \/ \E rc \in FfmpegRcs : MergeFallback(rc)
    \/ SetStatusCompleted
    \/ SetPhaseCompleted
    \/ SetProgressCompleted
    \/ SetOutput
    \/ SetDuration
    \/ \E o \in Outcomes : Report(o)
    \/ CountSuccess
    \/ RunParallelRaised
    \/ ExceptStatus
    \/ ExceptPhase
    \/ ExceptError
    \/ CountFailure
    \/ Cleanup

SpecJob == JobInit /\ [][JobNext]_vars

\* a step of the thread that runs run_render_task, run_parallel included,
\* other than the planning step: an assignment, or the return of a call it
\* is waiting for
TaskThreadStep ==
    \/ TaskStart
    \/ SetAnalyzing
    \/ MakeJobTemp
    \/ \E o \in Outcomes : Analyze(o)
    \/ \E o \in Outcomes, w \in 1..MaxJobWorkers : SmartConfig(o, w)
    \/ SetWorkers
    \/ SetFilterChain
    \/ SetSmartConfig
    \/ SetBenchmarking
    \/ \E o \in Outcomes : Benchmark(o)
    \/ SetParallel
    \/ CallRunParallel
    \/ Submit
    \/ \E i \in ChunkIds : Collect(i)
    \/ PoolExit
    \/ \E rc \in FfmpegRcs : MergeFast(rc)
    \/ \E rc \in FfmpegRcs : MergeFallback(rc)
    \/ SetStatusCompleted
    \/ SetPhaseCompleted
    \/ SetProgressCompleted
    \/ SetOutput
    \/ SetDuration
    \/ \E o \in Outcomes : Report(o)
    \/ CountSuccess
    \/ RunParallelRaised
    \/ ExceptStatus
    \/ ExceptPhase
    \/ ExceptError
    \/ CountFailure
    \/ Cleanup

\* a step of a worker process of the pool: it takes a work item, or the
\* encode it is running ends
WorkerStep ==
    \/ WorkerStart
    \/ \E i \in ChunkIds, o \in ChunkOutcomes : WorkerFinish(i, o)

\* weak fairness of the planning step of that thread: RunParallelPlan is
\* enabled exactly when pc = "start" and changes pc, so this is
\* WF_vars(RunParallelPlan) with the enabling condition written out
PlanStepFair == <>[](pc = "start") => []<><<RunParallelPlan>>_vars

\* the submission of a job and the steps that render it; GET /jobs/{job_id}
\* is served by the event loop while the task runs in a thread of the pool,
\* and reads the record only: the polls are left out of these runs
RenderNext ==
    \/ \E w \in 1..MaxJobWorkers, smart \in BOOLEAN, v \in EngineVersions :
          create_job(w, smart, v)
    \/ TaskThreadStep
    \/ RunParallelPlan
    \/ WorkerStep

\* the thread of the task is scheduled and every external tool it or a
\* worker process waits for ends
FairSpecJob ==
    /\ JobInit
    /\ [][RenderNext]_vars
    /\ WF_vars(TaskThreadStep)
    /\ PlanStepFair
    /\ WF_vars(WorkerStep)

\* ------------------------------------------------------------------------
\* Vocabulary of the job properties
\* ------------------------------------------------------------------------
PhaseOrder == <<"queued", "analyzing", "benchmarking", "parallel", "merging",
                "completed">>
\* position of a phase in the sequence; 0 before the job exists
PhaseRank(ph) == IF ph = "none" THEN 0
                 ELSE CHOOSE k \in DOMAIN PhaseOrder : PhaseOrder[k] = ph
PhasesSeen == {phase_hist[k] : k \in DOMAIN phase_hist}
TerminalStatus(st) == st \in {"completed", "failed"}
TaskExited == task_pc = "exited"

\* ------------------------------------------------------------------------
\* C11
\* ------------------------------------------------------------------------
\* C11: the phases a job goes through are values of the sequence queued,
\* analyzing, benchmarking, parallel, merging, completed, taken in this order
\* (some may be left out), whether the task succeeds or fails, and the phase
\* a poll observes is never earlier than the phase an earlier poll observed.
C11_PhasesNeverRegress ==
    /\ [](/\ PhasesSeen \subseteq {PhaseOrder[k] : k \in DOMAIN PhaseOrder}
          /\ \A k \in 2..Len(phase_hist) :
                PhaseRank(phase_hist[k - 1]) <= PhaseRank(phase_hist[k])
          /\ job # NoJob => job.phase = phase_hist[Len(phase_hist)])
    /\ [][PhaseRank(last_poll.phase) <= PhaseRank(last_poll'.phase)]_vars

\* a job that failed in the comparison report, polled at the end
C11_Witness ==
    /\ TaskExited
    /\ job.status = "failed"
    /\ phase_hist = <<"queued", "analyzing", "benchmarking", "parallel",
                      "completed", "completed">>
    /\ last_poll.phase = "completed"

\* ------------------------------------------------------------------------
\* C12
\* ------------------------------------------------------------------------
\* C12: once a job's status is completed or failed it never changes again,
\* also when the comparison report that follows completion raises.
C12_TerminalStatusOnce ==
    [][TerminalStatus(job.status) => job'.status = job.status]_vars

\* ------------------------------------------------------------------------
\* C13
\* ------------------------------------------------------------------------
\* C13: in every state a status poll can return, progress is 100 if and only
\* if status is completed.
C13_FullProgressIffCompleted ==
    /\ last_poll.progress = 100 <=> last_poll.status = "completed"
    /\ job.progress = 100 <=> job.status = "completed"

C15_FailureRecord ==
    /\ []((TaskExited /\ task_exc # NoError) =>
             /\ job.status = "failed"
             /\ job.error = task_exc
             /\ job.phase = "completed"
             /\ job.output = "unset")
    /\ [][task_exc # NoError => job'.progress = job.progress]_vars

\* ------------------------------------------------------------------------
\* C16
\* ------------------------------------------------------------------------
\* JobCreate (lines 78-83) and run_render_task have no parameter by which a
\* caller asks for a serial baseline
SerialBaselineRequested == FALSE

\* C16: a job enters the benchmarking phase only if its caller requested a
\* serial baseline, and otherwise goes from analyzing directly to parallel;
\* the command line run with --skip-serial never runs the serial baseline.
C16_BenchmarkOnlyOnRequest ==
    /\ "benchmarking" \in PhasesSeen => SerialBaselineRequested
    /\ (~SerialBaselineRequested /\ "parallel" \in PhasesSeen) =>
          \E k \in DOMAIN phase_hist :
             k > 1 /\ phase_hist[k] = "parallel"
                   /\ phase_hist[k - 1] = "analyzing"
    /\ args.skip_serial => serial_calls = 0

\* ------------------------------------------------------------------------
\* C17
\* ------------------------------------------------------------------------
\* C17: once run_render_task has exited, the working directory it created
\* does not exist, whichever way the task ended.
C17_JobTempRemoved ==
    /\ TaskExited => job_temp = "absent"
    /\ (task_pc \in {"analyze", "smart", "benchmark", "in_parallel", "report"})
          => job_temp = "exists"

\* the task ended in the except clause after the report raised
C17_Witness ==
    /\ TaskExited
    /\ task_exc = ExcOf("comparison_report")
    /\ output_file = "complete"
    /\ job_temp = "absent"

\* ------------------------------------------------------------------------
\* render_engine.py run from the command line: main and run_scaling_sweep
\* ------------------------------------------------------------------------
\* run_parallel as its caller sees it: it returns with the merged output in
\* place, or raises with nothing or a partial file at output_path
RunParallelResults ==
    {[raised |-> FALSE, output |-> "complete"],
     [raised |-> TRUE, output |-> "absent"],
     [raised |-> TRUE, output |-> "partial"]}

\* every way run_parallel of the model ends is one of these
RunParallelSummarySound ==
    Terminal => [raised |-> pc = "raised", output |-> output_file]
                   \in RunParallelResults

\* the process is started with a parsed command line (lines 479-488)
CliInit ==
    /\ num_workers = 0
    /\ duration = FromInt(TestVideoDuration)
    /\ pc = "not_called"
    /\ EntryLocals
    /\ JobIdle
    /\ args \in [workers : 1..MaxCliWorkers, skip_serial : BOOLEAN,
                 sweep : BOOLEAN, keep_temp : BOOLEAN, export : BOOLEAN]
    /\ cli_pc = "start"
    /\ temp_dir = "absent"
    /\ serial_time = "None"
    /\ serial_calls = 0
    /\ worker_counts = <<>>
    /\ sweep_w = 0
    /\ sweep_results = NoSweepResults
    /\ sweep_runs = <<>>
    /\ files = NoFiles
    /\ cli_exc = NoError
    /\ exit_code = NotExited
    /\ analysis = <<>>

\* what no step of main changes (the figures display_results prints are not
\* followed in the run of main)
CliFrame == UNCHANGED <<engine_vars, job, task_vars, server_vars, args,
                        analysis>>

\* max_workers = args.workers or psutil.cpu_count(logical=True)
max_workers == args.workers

\* lines 491-502: a missing input ends the process through sys.exit(1),
\* before anything is set up
CheckInput(o) ==
    /\ cli_pc = "start"
    /\ IF o = "ok"
       THEN /\ cli_pc' = "setup"
            /\ UNCHANGED <<cli_exc, exit_code>>
       ELSE /\ cli_exc' = ExcOf("SystemExit")
            /\ exit_code' = 1
            /\ cli_pc' = "exited"
    /\ CliFrame
    /\ UNCHANGED <<temp_dir, serial_time, serial_calls, worker_counts,
                   sweep_w, sweep_results, sweep_runs, files>>

\* lines 505-514: temp_dir.mkdir(exist_ok=True), before the try statement
Setup ==
    /\ cli_pc = "setup"
    /\ temp_dir' = "exists"
    /\ cli_pc' = "analyze"
    /\ CliFrame
    /\ UNCHANGED <<serial_time, serial_calls, worker_counts, sweep_w,
                   sweep_results, sweep_runs, files, cli_exc, exit_code>>

\* lines 518-525: analyze_video(args.input)
CliAnalyze(o) ==
    /\ cli_pc = "analyze"
    /\ IF o = "ok"
       THEN /\ cli_pc' = "serial"
            /\ UNCHANGED cli_exc
       ELSE /\ cli_exc' = ExcOf("analyze_video")
            /\ cli_pc' = "finally"
    /\ CliFrame
    /\ UNCHANGED <<temp_dir, serial_time, serial_calls, worker_counts,
                   sweep_w, sweep_results, sweep_runs, files, exit_code>>

\* line 526: if not args.skip_serial
SerialBaselineWanted == ~args.skip_serial

\* lines 526-531: run_serial_baseline encodes the whole input, unless skipped
SerialBaseline(o) ==
    /\ cli_pc = "serial"
    /\ IF ~SerialBaselineWanted
       THEN /\ o = "ok"
            /\ cli_pc' = "parallel"
            /\ UNCHANGED <<serial_time, serial_calls, cli_exc>>
       ELSE /\ serial_calls' = serial_calls + 1
            /\ IF o = "ok"
               THEN /\ serial_time' = "measured"
                    /\ cli_pc' = "parallel"
                    /\ UNCHANGED cli_exc
               ELSE /\ cli_exc' = ExcOf("run_serial_baseline")
                    /\ cli_pc' = "finally"
                    /\ UNCHANGED serial_time
    /\ CliFrame
    /\ UNCHANGED <<temp_dir, worker_counts, sweep_w, sweep_results,
                   sweep_runs, files, exit_code>>

\* lines 544-550: the single run of run_parallel into args.output
CliRunParallel(r) ==
    /\ cli_pc = "parallel"
    /\ ~args.sweep
    /\ sweep_runs' = Append(sweep_runs, max_workers)
    /\ files' = [files EXCEPT !.output = r.output]
    /\ IF r.raised
       THEN /\ cli_exc' = ExcOf("run_parallel")
            /\ cli_pc' = "finally"
            /\ UNCHANGED sweep_results
       ELSE /\ sweep_results' =
                  (max_workers :> [time |-> "measured", success |-> TRUE,
                                   chunk_times |-> "absent"])
            /\ cli_pc' = "display"
            /\ UNCHANGED cli_exc
    /\ CliFrame
    /\ UNCHANGED <<temp_dir, serial_time, serial_calls, worker_counts,
                   sweep_w, exit_code>>

\* ------------------------------------------------------------------------
\* run_scaling_sweep
\* ------------------------------------------------------------------------
\* lines 367-371, entered from line 535
SweepStart ==
    /\ cli_pc = "parallel"
    /\ args.sweep
    /\ worker_counts' = <<1>>
    /\ sweep_w' = 2
    /\ sweep_results' = NoSweepResults
    /\ cli_pc' = "sweep_loop"
    /\ CliFrame
    /\ UNCHANGED <<temp_dir, serial_time, serial_calls, sweep_runs, files,
                   cli_exc, exit_code>>

\* (variant: the candidate count grows by two)
Incremented(n) == n + 2

\* w *= 2
Doubled(n) == n * 2

\* lines 372-374: one iteration of `while w <= max_workers`
SweepDouble ==
    /\ cli_pc = "sweep_loop"
    /\ sweep_w <= max_workers
    /\ worker_counts' = Append(worker_counts, sweep_w)
    /\ sweep_w' = Doubled(sweep_w)
    /\ CliFrame
    /\ UNCHANGED <<cli_pc, temp_dir, serial_time, serial_calls,
                   sweep_results, sweep_runs, files, cli_exc, exit_code>>

Elements(q) == {q[k] : k \in DOMAIN q}

\* sorted(set(worker_counts)): the distinct elements in ascending order
RECURSIVE Ascending(_)
Ascending(S) ==
    IF S = {} THEN <<>>
    ELSE LET m == CHOOSE x \in S : \A y \in S : x <= y
         IN  <<m>> \o Ascending(S \ {m})
SortedSet(q) == Ascending(Elements(q))

\* lines 377-380, reached when the loop condition fails
WorkerSeries(counts, m) ==
    SortedSet(IF m \in Elements(counts) THEN counts ELSE Append(counts, m))

SweepSeries ==
    /\ cli_pc = "sweep_loop"
    /\ sweep_w > max_workers
    /\ worker_counts' = WorkerSeries(worker_counts, max_workers)
    /\ cli_pc' = "sweep_run"
    /\ CliFrame
    /\ UNCHANGED <<temp_dir, serial_time, serial_calls, sweep_w,
                   sweep_results, sweep_runs, files, cli_exc, exit_code>>

\* (variant: a run that failed leaves no entry in the results)
SweepRunDroppingFailures(r) ==
    /\ cli_pc = "sweep_run"
    /\ Len(sweep_runs) < Len(worker_counts)
    /\ LET n == worker_counts[Len(sweep_runs) + 1]
       IN  /\ sweep_runs' = Append(sweep_runs, n)
           /\ files' = [files EXCEPT !.sweep = (n :> r.output) @@ @]
           /\ sweep_results' =
                 IF r.raised THEN sweep_results
                 ELSE (n :> [time |-> "measured", success |-> TRUE,
                             chunk_times |-> "recorded"])
                      @@ sweep_results
    /\ CliFrame
    /\ UNCHANGED <<cli_pc, temp_dir, serial_time, serial_calls,
                   worker_counts, sweep_w, cli_exc, exit_code>>

\* (variant: an exception of run_parallel leaves run_scaling_sweep)
SweepRunAborting(r) ==
    /\ cli_pc = "sweep_run"
    /\ Len(sweep_runs) < Len(worker_counts)
    /\ LET n == worker_counts[Len(sweep_runs) + 1]
       IN  /\ sweep_runs' = Append(sweep_runs, n)
           /\ files' = [files EXCEPT !.sweep = (n :> r.output) @@ @]
           /\ IF r.raised
              THEN /\ cli_exc' = ExcOf("run_parallel")
                   /\ cli_pc' = "finally"
                   /\ UNCHANGED sweep_results
              ELSE /\ sweep_results' =
                         (n :> [time |-> "measured", success |-> TRUE,
                                chunk_times |-> "recorded"])
                         @@ sweep_results
                   /\ UNCHANGED <<cli_pc, cli_exc>>
    /\ CliFrame
    /\ UNCHANGED <<temp_dir, serial_time, serial_calls, worker_counts,
                   sweep_w, exit_code>>

\* lines 384-399: one iteration of `for num_workers in worker_counts`; an
\* exception of run_parallel is caught and recorded
SweepRun(r) ==
    /\ cli_pc = "sweep_run"
    /\ Len(sweep_runs) < Len(worker_counts)
    /\ LET n == worker_counts[Len(sweep_runs) + 1]
       IN  /\ sweep_runs' = Append(sweep_runs, n)
           /\ files' = [files EXCEPT !.sweep = (n :> r.output) @@ @]
           /\ sweep_results' =
                 (n :> IF r.raised
                       THEN [time |-> "None", success |-> FALSE,
                             chunk_times |-> "absent"]
                       ELSE [time |-> "measured", success |-> TRUE,
                             chunk_times |-> "recorded"])
                 @@ sweep_results
    /\ CliFrame
    /\ UNCHANGED <<cli_pc, temp_dir, serial_time, serial_calls,
                   worker_counts, sweep_w, cli_exc, exit_code>>

\* lines 401 and 538-542: the sweep returns; the output of the run at
\* max_workers, if that file exists, is copied to args.output
SweepCopyBest ==
    /\ cli_pc = "sweep_run"
    /\ Len(sweep_runs) = Len(worker_counts)
    /\ files' = IF files.sweep[max_workers] # "absent"
                THEN [files EXCEPT !.output = files.sweep[max_workers]]
                ELSE files
    /\ cli_pc' = "display"
    /\ CliFrame
    /\ UNCHANGED <<temp_dir, serial_time, serial_calls, worker_counts,
                   sweep_w, sweep_results, sweep_runs, cli_exc, exit_code>>

\* ------------------------------------------------------------------------
\* main: results, export, cleanup
\* ------------------------------------------------------------------------
\* display_results divides by 1 - 1/max_workers when the run at max_workers
\* succeeded with a speedup below max_workers
DisplayCanRaise ==
    /\ serial_time = "measured"
    /\ max_workers = 1
    /\ max_workers \in DOMAIN sweep_results
    /\ sweep_results[max_workers].success

\* lines 553-558
Display(o) ==
    /\ cli_pc = "display"
    /\ IF o = "ok"
       THEN /\ cli_pc' = "export"
            /\ UNCHANGED cli_exc
       ELSE /\ DisplayCanRaise
            /\ cli_exc' = ExcOf("ZeroDivisionError")
            /\ cli_pc' = "finally"
    /\ CliFrame
    /\ UNCHANGED <<temp_dir, serial_time, serial_calls, worker_counts,
                   sweep_w, sweep_results, sweep_runs, files, exit_code>>

\* lines 561-566: the benchmark data is written to args.export, if given
Export(o) ==
    /\ cli_pc = "export"
    /\ IF ~args.export
       THEN /\ o = "ok"
            /\ UNCHANGED <<files, cli_exc>>
       ELSE IF o = "ok"
       THEN /\ files' = [files EXCEPT !.export = "complete"]
            /\ UNCHANGED cli_exc
       ELSE /\ cli_exc' = ExcOf("export")
            /\ UNCHANGED files
    /\ cli_pc' = "finally"
    /\ CliFrame
    /\ UNCHANGED <<temp_dir, serial_time, serial_calls, worker_counts,
                   sweep_w, sweep_results, sweep_runs, exit_code>>

\* (variant: the directory is removed at the end of the try block only)
CleanupWantedOnSuccess == ~args.keep_temp /\ cli_exc = NoError

\* line 570: if not args.keep_temp and temp_dir.exists()
CleanupWanted == ~args.keep_temp

\* the status the interpreter exits with: 1 when an exception left main
ExitCode(exc) == IF exc = NoError THEN 0 ELSE 1

\* lines 568-572, then main returns or its exception ends the process
CliCleanup ==
    /\ cli_pc = "finally"
    /\ temp_dir' = IF CleanupWanted THEN "absent" ELSE temp_dir
    /\ exit_code' = ExitCode(cli_exc)
    /\ cli_pc' = "exited"
    /\ CliFrame
    /\ UNCHANGED <<serial_time, serial_calls, worker_counts, sweep_w,
                   sweep_results, sweep_runs, files, cli_exc>>

CliNext ==
    \/ \E o \in Outcomes : CheckInput(o)
    \/ Setup
    \/ \E o \in Outcomes : CliAnalyze(o)
    \/ \E o \in Outcomes : SerialBaseline(o)
    \/ \E r \in RunParallelResults : CliRunParallel(r)
    \/ SweepStart
    \/ SweepDouble
    \/ SweepSeries
    \/ \E r \in RunParallelResults : SweepRun(r)
    \/ SweepCopyBest
    \/ \E o \in Outcomes : Display(o)
    \/ \E o \in Outcomes : Export(o)
    \/ CliCleanup

SpecCli == CliInit /\ [][CliNext]_vars

\* ------------------------------------------------------------------------
\* The two entry points of the program: the server, which runs jobs, and the
\* command line
\* ------------------------------------------------------------------------
ServerOrCliInit == JobInit \/ CliInit

ServerOrCliNext ==
    \/ cli_pc = "none" /\ JobNext
    \/ cli_pc # "none" /\ CliNext

SpecServerOrCli == ServerOrCliInit /\ [][ServerOrCliNext]_vars

\* ------------------------------------------------------------------------
\* display_results: the Amdahl analysis, lines 445-462
\* ------------------------------------------------------------------------
FOne == FromInt(1)

\* a measured time of k tenths of a second: the float nearest to k/10
Tenths(k) == FDivInt(FromInt(k), 10)

\* line 448: serial_time / best_time
ActualSpeedup(serial, best) == FDiv(serial, best)

\* line 454, the divisor: 1 - 1/max_workers
SerialFractionDivisor(N) == FSub(FOne, FDivInt(FOne, N))

\* line 454: (1 - actual_speedup/max_workers) / (1 - 1/max_workers)
SerialFraction(A, N) ==
    FDiv(FSub(FOne, FDivInt(A, N)), SerialFractionDivisor(N))

\* (variant: the estimate is reported as computed)
Unclamped(f) == f

\* line 455: max(0, min(1, serial_fraction))
Clamp(f) ==
    LET least == IF FLess(f, FOne) THEN f ELSE FOne
    IN  IF FLess(FZero, least) THEN least ELSE FZero

\* lines 456-457: 1 / serial_fraction if serial_fraction > 0 else
\* max_workers, then min(theoretical_max, max_workers * 2)
TheoreticalMax(f, N) ==
    LET theoretical_max == IF FLess(FZero, f) THEN FDiv(FOne, f)
                           ELSE FromInt(N)
    IN  IF FLess(FromInt(2 * N), theoretical_max) THEN FromInt(2 * N)
        ELSE theoretical_max

\* display_results has not been called
NotDisplayed == [kind |-> "pending", actual_speedup |-> FZero,
                 serial_fraction |-> FZero, theoretical_max |-> FZero]

\* lines 446-462: the figures of the analysis that are printed ("reported"),
\* nothing when the run at max_workers failed or reached a speedup of
\* max_workers ("none"), or the exception of a division by 0.0
display_results(serial, res, N) ==
    IF ~(N \in DOMAIN res /\ res[N].success)
    THEN [NotDisplayed EXCEPT !.kind = "none"]
    ELSE CHOOSE out \in
           {IF ~FLess(actual_speedup, FromInt(N))
            THEN [NotDisplayed EXCEPT !.kind = "none",
                                      !.actual_speedup = actual_speedup]
            ELSE IF SerialFractionDivisor(N) = FZero
            THEN [NotDisplayed EXCEPT !.kind = "ZeroDivisionError",
                                      !.actual_speedup = actual_speedup]
            ELSE CHOOSE rep \in
                   {[kind            |-> "reported",
                     actual_speedup  |-> actual_speedup,
                     serial_fraction |-> serial_fraction,
                     theoretical_max |-> TheoreticalMax(serial_fraction, N)] :
                    serial_fraction \in
                        {Clamp(SerialFraction(actual_speedup, N))}} : TRUE :
            actual_speedup \in {ActualSpeedup(serial, res[N].time)}} : TRUE

\* main is about to call display_results (line 553) after a serial baseline
\* and a single run of run_parallel at max_workers, both measured
AmdahlInit ==
    /\ num_workers = 0
    /\ duration = FromInt(TestVideoDuration)
    /\ pc = "not_called"
    /\ EntryLocals
    /\ JobIdle
    /\ \E N \in 1..MaxCliWorkers : args = [NoArgs EXCEPT !.workers = N]
    /\ cli_pc = "display"
    /\ temp_dir = "exists"
    /\ \E k \in 1..MaxTimeUnits : serial_time = Tenths(k)
    /\ serial_calls = 1
    /\ worker_counts = <<>>
    /\ sweep_w = 0
    /\ \E k \in 1..MaxTimeUnits :
          sweep_results = (args.workers :> [time |-> Tenths(k),
                                            success |-> TRUE,
                                            chunk_times |-> "absent"])
    /\ sweep_runs = <<args.workers>>
    /\ files = [NoFiles EXCEPT !.output = "complete"]
    /\ cli_exc = NoError
    /\ exit_code = NotExited
    /\ analysis = NotDisplayed

\* lines 553-554: display_results(metadata, serial_time, sweep_results,
\* max_workers); a ZeroDivisionError leaves the try block
DisplayResults ==
    /\ cli_pc = "display"
    /\ analysis = NotDisplayed
    /\ analysis' = display_results(serial_time, sweep_results, max_workers)
    /\ IF analysis'.kind = "ZeroDivisionError"
       THEN /\ cli_exc' = ExcOf("ZeroDivisionError")
            /\ cli_pc' = "finally"
       ELSE /\ cli_pc' = "export"
            /\ UNCHANGED cli_exc
    /\ UNCHANGED <<engine_vars, job, task_vars, server_vars, args>>
    /\ UNCHANGED <<temp_dir, serial_time, serial_calls, worker_counts,
                   sweep_w, sweep_results, sweep_runs, files, exit_code>>

AmdahlNext == DisplayResults

SpecAmdahl == AmdahlInit /\ [][AmdahlNext]_vars

\* ------------------------------------------------------------------------
\* Vocabulary of the command-line properties
\* ------------------------------------------------------------------------
CliExited == cli_pc = "exited"
\* main got as far as creating the temporary directory
TempDirCreated == cli_pc \notin {"none", "start", "setup"}
                  /\ cli_exc # ExcOf("SystemExit")
\* something went wrong in the run: an exception left main, or a pipeline
\* run of the sweep failed
CliFailure ==
    \/ cli_exc # NoError
    \/ \E n \in DOMAIN sweep_results : ~sweep_results[n].success
PowerOfTwo(n) == \E k \in 0..30 : n = 2 ^ k

\* ------------------------------------------------------------------------
\* C18
\* ------------------------------------------------------------------------
\* C18: once main has created the temporary directory, the directory exists
\* until main exits; after the exit it is gone when --keep-temp was not
\* given, whatever the outcome of the run, and still there when it was.
C18_TempDirRemoved ==
    TempDirCreated =>
        /\ ~CliExited => temp_dir = "exists"
        /\ (CliExited /\ ~args.keep_temp) => temp_dir = "absent"
        /\ (CliExited /\ args.keep_temp) => temp_dir = "exists"

\* the export failed after a successful run, and the directory is gone
C18_Witness ==
    /\ CliExited
    /\ ~args.keep_temp
    /\ cli_exc = ExcOf("export")
    /\ files.output = "complete"
    /\ temp_dir = "absent"

\* ------------------------------------------------------------------------
\* C19
\* ------------------------------------------------------------------------
\* C19: the process exits with 0 or 1, with 1 whenever something failed
\* (also a pipeline run of a sweep) and with 0 only when nothing did.
C19_ExitCodeReportsFailure ==
    CliExited =>
        /\ exit_code \in {0, 1}
        /\ CliFailure => exit_code = 1
        /\ exit_code = 0 => ~CliFailure

\* ------------------------------------------------------------------------
\* C20
\* ------------------------------------------------------------------------
\* C20: for a requested maximum M >= 1 the worker-count series starts at 1,
\* is strictly increasing, ends with M, which occurs once, and its other
\* elements are powers of two below M; M = 8 gives 1, 2, 4, 8.
C20_WorkerSeries ==
    cli_pc = "sweep_run" =>
        /\ worker_counts # <<>>
        /\ worker_counts[1] = 1
        /\ \A k \in 2..Len(worker_counts) :
              worker_counts[k - 1] < worker_counts[k]
        /\ worker_counts[Len(worker_counts)] = max_workers
        /\ Cardinality({k \in DOMAIN worker_counts :
                           worker_counts[k] = max_workers}) = 1
        /\ \A k \in 1..(Len(worker_counts) - 1) :
              PowerOfTwo(worker_counts[k]) /\ worker_counts[k] < max_workers
        /\ (max_workers = 8 => worker_counts = <<1, 2, 4, 8>>)

\* the series of a maximum that is not a power of two
C20_Witness ==
    /\ cli_pc = "sweep_run"
    /\ max_workers = 6
    /\ worker_counts = <<1, 2, 4, 6>>

\* ------------------------------------------------------------------------
\* server.py with several jobs: POST /jobs, DELETE /jobs/{job_id} and the
\* run_render_task calls, each in a thread of its own.  The pipeline of a
\* task is one step here; its phases are followed in SpecJob.
\* ------------------------------------------------------------------------
\* the values str(uuid.uuid4())[:8] can take
JobIds == {"id1", "id2"}

\* lines 425-437, the fields followed here
NewJobDict(id) == [id |-> id, status |-> "queued", output |-> "unset",
                   error |-> "unset"]

\* a call run_render_task(job_id, ...) that has been scheduled; job is the
\* local of that name (0 before line 233); history: counted is the number
\* of times the task has incremented successful_jobs or failed_jobs, wrote
\* the last status it has assigned, deleted_at where the task was when its
\* job was deleted ("no": not deleted, "scheduled": before line 233,
\* "started": after it)
NewTask(id) == [job_id |-> id, pc |-> "scheduled", job |-> 0,
                counted |-> 0, wrote |-> "none", deleted_at |-> "no"]

\* the server has started (lines 57-72)
ServerInit ==
    /\ num_workers = 0
    /\ duration = FromInt(TestVideoDuration)
    /\ pc = "not_called"
    /\ EntryLocals
    /\ ServerIdle
    /\ progress_callback = "none"
    /\ job = <<>>
    /\ task_pc = "none"
    /\ job_temp = "absent"
    /\ smart_mode = FALSE
    /\ task_exc = NoError
    /\ V2_AVAILABLE = FALSE
    /\ GLOBAL_STATS = NoStats
    /\ phase_hist = <<>>
    /\ last_poll = <<>>
    /\ CliIdle

\* what no step of the server with several jobs changes
ServerFrame == UNCHANGED <<engine_vars, cli_vars, job, progress_callback,
                           task_pc, job_temp, smart_mode, task_exc,
                           V2_AVAILABLE, phase_hist, last_poll>>

\* the tasks whose run_render_task call has started and not ended
Started(k) == tasks[k].pc \notin {"scheduled", "exited", "crashed"}

\* POST /jobs, lines 417-451, for a request that is accepted (one refused
\* at 413-414 or 419-420 changes nothing): the id is drawn, the dict is
\* stored under it (whatever JOBS held for that id), the job is counted and
\* the task is added to the background tasks
post_job(id) ==
    /\ Len(tasks) < MaxJobs
    /\ job_dicts' = Append(job_dicts, NewJobDict(id))
    /\ JOBS' = (id :> Len(job_dicts) + 1) @@ JOBS
    /\ GLOBAL_STATS' = [GLOBAL_STATS EXCEPT !.total_jobs = @ + 1]
    /\ tasks' = Append(tasks, NewTask(id))
    /\ UNCHANGED <<TEMP_BASE, OUTPUT_DIR>>
    /\ ServerFrame

\* (variant: deleting a job also stops its task where it is)
delete_job_cancelling(id) ==
    /\ id \in DOMAIN JOBS
    /\ JOBS' = [i \in DOMAIN JOBS \ {id} |-> JOBS[i]]
    /\ tasks' = [k \in DOMAIN tasks |->
                    IF Started(k) /\ tasks[k].job = JOBS[id]
                    THEN [tasks[k] EXCEPT !.deleted_at = "started",
                                          !.pc = "exited"]
                    ELSE tasks[k]]
    /\ UNCHANGED <<job_dicts, TEMP_BASE, OUTPUT_DIR, GLOBAL_STATS>>
    /\ ServerFrame

\* DELETE /jobs/{job_id}, lines 464-469: 404 for an id JOBS does not hold,
\* otherwise del JOBS[job_id] and nothing else (the history field of the
\* tasks working on that job is set)
delete_job(id) ==
    /\ id \in DOMAIN JOBS
    /\ JOBS' = [i \in DOMAIN JOBS \ {id} |-> JOBS[i]]
    /\ tasks' = [k \in DOMAIN tasks |->
                    IF Started(k) /\ tasks[k].job = JOBS[id]
                    THEN [tasks[k] EXCEPT !.deleted_at = "started"]
                    ELSE IF tasks[k].pc = "scheduled" /\ tasks[k].job_id = id
                    THEN [tasks[k] EXCEPT !.deleted_at = "scheduled"]
                    ELSE tasks[k]]
    /\ UNCHANGED <<job_dicts, TEMP_BASE, OUTPUT_DIR, GLOBAL_STATS>>
    /\ ServerFrame

\* GET /jobs (lines 453-456) returns the dicts stored in JOBS and
\* GET /jobs/{job_id} (458-462) the one stored under the id, or 404: the
\* dicts, by their index in job_dicts, that the two can return
StoredDicts == {JOBS[id] : id \in DOMAIN JOBS}

\* lines 233-235: job = JOBS[job_id] raises KeyError, outside the try
\* statement, when nothing is stored under the id, and the call ends there
\* ("crashed"); otherwise the dict found is the task's job and is marked
\* processing
Pickup(k) ==
    /\ k \in DOMAIN tasks
    /\ tasks[k].pc = "scheduled"
    /\ IF tasks[k].job_id \in DOMAIN JOBS
       THEN /\ tasks' = [tasks EXCEPT ![k].job = JOBS[tasks[k].job_id],
                                      ![k].wrote = "processing",
                                      ![k].pc = "mkdir"]
            /\ job_dicts' = [job_dicts EXCEPT
                                ![JOBS[tasks[k].job_id]].status = "processing"]
       ELSE /\ tasks' = [tasks EXCEPT ![k].pc = "crashed"]
            /\ UNCHANGED job_dicts
    /\ UNCHANGED <<JOBS, TEMP_BASE, OUTPUT_DIR, GLOBAL_STATS>>
    /\ ServerFrame

\* lines 237-240: job_temp = TEMP_BASE / job_id; job_temp.mkdir(exist_ok=True)
MakeTemp(k) ==
    /\ k \in DOMAIN tasks
    /\ tasks[k].pc = "mkdir"
    /\ TEMP_BASE' = TEMP_BASE \cup {tasks[k].job_id}
    /\ tasks' = [tasks EXCEPT ![k].pc = "running"]
    /\ UNCHANGED <<JOBS, job_dicts, OUTPUT_DIR, GLOBAL_STATS>>
    /\ ServerFrame

\* lines 245-294: the probe, the benchmark and run_parallel, which works in
\* job_temp and writes OUTPUT_DIR / output_{job_id}.mp4 (a file is followed
\* by the id in its name), or an exception
RunPipeline(k, o) ==
    /\ k \in DOMAIN tasks
    /\ tasks[k].pc = "running"
    /\ IF o = "ok"
       THEN /\ tasks[k].job_id \in TEMP_BASE
            /\ OUTPUT_DIR' = OUTPUT_DIR \cup {tasks[k].job_id}
            /\ tasks' = [tasks EXCEPT ![k].pc = "completed"]
       ELSE /\ tasks' = [tasks EXCEPT ![k].pc = "except"]
            /\ UNCHANGED OUTPUT_DIR
    /\ UNCHANGED <<JOBS, job_dicts, TEMP_BASE, GLOBAL_STATS>>
    /\ ServerFrame

\* lines 296-300
MarkCompleted(k) ==
    /\ k \in DOMAIN tasks
    /\ tasks[k].pc = "completed"
    /\ job_dicts' = [job_dicts EXCEPT ![tasks[k].job].status = "completed",
                                      ![tasks[k].job].output = "set"]
    /\ tasks' = [tasks EXCEPT ![k].wrote = "completed", ![k].pc = "report"]
    /\ UNCHANGED <<JOBS, TEMP_BASE, OUTPUT_DIR, GLOBAL_STATS>>
    /\ ServerFrame

\* lines 301-305: generate_comparison_report returns or raises
CompareOutputs(k, o) ==
    /\ k \in DOMAIN tasks
    /\ tasks[k].pc = "report"
    /\ tasks' = IF o = "ok" THEN [tasks EXCEPT ![k].pc = "stats"]
                ELSE [tasks EXCEPT ![k].pc = "except"]
    /\ UNCHANGED <<JOBS, job_dicts, TEMP_BASE, OUTPUT_DIR, GLOBAL_STATS>>
    /\ ServerFrame

\* lines 308-310
CountSucceeded(k) ==
    /\ k \in DOMAIN tasks
    /\ tasks[k].pc = "stats"
    /\ GLOBAL_STATS' = [GLOBAL_STATS EXCEPT !.successful_jobs = @ + 1]
    /\ tasks' = [tasks EXCEPT ![k].counted = @ + 1, ![k].pc = "finally"]
    /\ UNCHANGED <<JOBS, job_dicts, TEMP_BASE, OUTPUT_DIR>>
    /\ ServerFrame

\* lines 312-315
MarkFailed(k) ==
    /\ k \in DOMAIN tasks
    /\ tasks[k].pc = "except"
    /\ job_dicts' = [job_dicts EXCEPT ![tasks[k].job].status = "failed",
                                      ![tasks[k].job].error = "set"]
    /\ tasks' = [tasks EXCEPT ![k].wrote = "failed",
                              ![k].pc = "except_stats"]
    /\ UNCHANGED <<JOBS, TEMP_BASE, OUTPUT_DIR, GLOBAL_STATS>>
    /\ ServerFrame

\* line 316
CountFailed(k) ==
    /\ k \in DOMAIN tasks
    /\ tasks[k].pc = "except_stats"
    /\ GLOBAL_STATS' = [GLOBAL_STATS EXCEPT !.failed_jobs = @ + 1]
    /\ tasks' = [tasks EXCEPT ![k].counted = @ + 1, ![k].pc = "finally"]
    /\ UNCHANGED <<JOBS, job_dicts, TEMP_BASE, OUTPUT_DIR>>
    /\ ServerFrame

\* lines 321-324: if job_temp.exists(): shutil.rmtree(job_temp)
RemoveTemp(k) ==
    /\ k \in DOMAIN tasks
    /\ tasks[k].pc = "finally"
    /\ TEMP_BASE' = TEMP_BASE \ {tasks[k].job_id}
    /\ tasks' = [tasks EXCEPT ![k].pc = "exited"]
    /\ UNCHANGED <<JOBS, job_dicts, OUTPUT_DIR, GLOBAL_STATS>>
    /\ ServerFrame

\* a step of the thread that runs task k
TaskStep(k) ==
    \/ Pickup(k)
    \/ MakeTemp(k)
    \/ \E o \in Outcomes : RunPipeline(k, o)
    \/ MarkCompleted(k)
    \/ \E o \in Outcomes : CompareOutputs(k, o)
    \/ CountSucceeded(k)
    \/ MarkFailed(k)
    \/ CountFailed(k)
    \/ RemoveTemp(k)

ServerNext ==
    \/ \E id \in JobIds : post_job(id)
    \/ \E id \in JobIds : delete_job(id)
    \/ \E k \in 1..MaxJobs : TaskStep(k)

SpecServer == ServerInit /\ [][ServerNext]_vars

\* ------------------------------------------------------------------------
\* C21
\* ------------------------------------------------------------------------
\* run_scaling_sweep has returned to main
SweepReturned ==
    /\ args.sweep
    /\ worker_counts # <<>>
    /\ cli_pc \in {"display", "export", "finally", "exited"}

\* run_parallel was called once for each worker count of the series reached
\* so far, in the order of the series, which is ascending
SweepRunsInSeriesOrder ==
    /\ cli_pc = "sweep_run" =>
          /\ Len(sweep_runs) <= Len(worker_counts)
          /\ sweep_runs = SubSeq(worker_counts, 1, Len(sweep_runs))
          /\ DOMAIN sweep_results = Elements(sweep_runs)
    /\ SweepReturned =>
          /\ sweep_runs = worker_counts
          /\ \A k \in 2..Len(sweep_runs) : sweep_runs[k - 1] < sweep_runs[k]
          /\ DOMAIN sweep_results = Elements(worker_counts)

\* C21 as stated: run_scaling_sweep runs the pipeline exactly once for each
\* worker count of the series, in ascending order, and returns one entry per
\* worker count, each recording time, success and the per-segment elapsed
\* times.
C21_Original ==
    /\ SweepRunsInSeriesOrder
    /\ SweepReturned =>
          \A n \in DOMAIN sweep_results :
             /\ sweep_results[n].success \in BOOLEAN
             /\ sweep_results[n].chunk_times = "recorded"

\* C21: run_scaling_sweep runs the pipeline exactly once for each worker
\* count of the series, in ascending order, and returns one entry per worker
\* count; the entry of a run that succeeded records its time, success and
\* the per-segment elapsed times, the entry of a run that failed records
\* success False, the time None and no per-segment times.
C21_SweepEntries ==
    /\ SweepRunsInSeriesOrder
    /\ SweepReturned =>
          \A n \in DOMAIN sweep_results :
             IF sweep_results[n].success
             THEN /\ sweep_results[n].time = "measured"
                  /\ sweep_results[n].chunk_times = "recorded"
                  /\ files.sweep[n] = "complete"
             ELSE /\ sweep_results[n].time = "None"
                  /\ sweep_results[n].chunk_times = "absent"

\* a sweep up to 4 workers whose run at 2 workers failed
C21_Witness ==
    /\ SweepReturned
    /\ max_workers = 4
    /\ sweep_runs = <<1, 2, 4>>
    /\ sweep_results[1].success
    /\ ~sweep_results[2].success
    /\ sweep_results[4].success

\* ------------------------------------------------------------------------
\* C22
\* ------------------------------------------------------------------------
\* nothing of run_parallel has happened: no plan, no submission, no encode,
\* no merge, no output
NoPipelineWork ==
    /\ pc = "not_called"
    /\ num_chunks = 0
    /\ chunks = <<>>
    /\ submits = NoFutures
    /\ calls = NoFutures
    /\ merge_calls = [fast |-> 0, fallback |-> 0]
    /\ output_file = "absent"

\* C22: when analyze_video raises, in a job or in a command-line run, no
\* serial baseline or benchmark is run, no segment is planned or dispatched,
\* no merge is attempted and nothing is written to the output; the job ends
\* with status failed, the command-line run with exit status 1.
C22_ProbeFailureFatal ==
    /\ task_exc = ExcOf("analyze_video") =>
          /\ "benchmarking" \notin PhasesSeen
          /\ "parallel" \notin PhasesSeen
          /\ job.projected_serial_time = "unset"
          /\ job.output = "unset"
          /\ NoPipelineWork
          /\ GLOBAL_STATS.successful_jobs = 0
          /\ (TaskExited => job.status = "failed" /\ job.error = task_exc)
    /\ cli_exc = ExcOf("analyze_video") =>
          /\ serial_calls = 0
          /\ serial_time = "None"
          /\ worker_counts = <<>>
          /\ sweep_runs = <<>>
          /\ files = NoFiles
          /\ (CliExited => exit_code = 1)

\* a job whose probe failed has ended
C22_Witness ==
    /\ TaskExited
    /\ task_exc = ExcOf("analyze_video")
    /\ job.status = "failed"
    /\ phase_hist = <<"queued", "analyzing", "completed">>

\* ------------------------------------------------------------------------
\* C23
\* ------------------------------------------------------------------------
\* C23: a submission that asks for v2 while v2 is not available is rejected:
\* no job record is stored, no job is counted, no task ever runs; and a job
\* stored with engine version v2 is configured, in smart mode, by the v2
\* configurator and never by the resolution-based one.
C23_NoSilentFallback ==
    /\ [](task_pc = "rejected" =>
             /\ ~V2_AVAILABLE
             /\ job = NoJob
             /\ GLOBAL_STATS = NoStats
             /\ phase_hist = <<>>
             /\ job_temp = "absent"
             /\ NoPipelineWork)
    /\ [][task_pc = "rejected" => task_pc' = "rejected"]_vars
    /\ []((job # NoJob /\ job.engine_version = "v2") =>
             /\ V2_AVAILABLE
             /\ SmartVariant = "v2"
             /\ job.smart_config.variant \in {"none", "v2"}
             /\ (smart_mode /\ "benchmarking" \in PhasesSeen) =>
                    job.smart_config.variant = "v2")

\* a request for v2 was answered 400 by a server without v2
C23_Witness ==
    /\ task_pc = "rejected"
    /\ ~V2_AVAILABLE
    /\ job = NoJob
    /\ GLOBAL_STATS.total_jobs = 0

\* ------------------------------------------------------------------------
\* C30
\* ------------------------------------------------------------------------
\* the steps of the smart-configuration block, lines 248-263
SmartStep == task_pc \in {"smart", "set_workers", "set_filter",
                          "set_smart_config"}

\* C30: with smart mode off, the workers, filter_chain and smart_config
\* fields of the job record keep the values stored at submission until the
\* task has ended, and run_parallel is called with the submitted worker
\* count; in any job these fields, and the worker count handed to
\* run_parallel, change only in the smart-configuration step.
C30_SmartOffLeavesConfig ==
    /\ []((job # NoJob /\ ~smart_mode) =>
             /\ ~SmartStep
             /\ job.workers = num_workers
             /\ job.filter_chain = "requested"
             /\ job.smart_config = NoSmartConf)
    /\ [][(job # NoJob /\ ~smart_mode) =>
             /\ job'.workers = job.workers
             /\ job'.filter_chain = job.filter_chain
             /\ job'.smart_config = job.smart_config
             /\ num_workers' = num_workers]_vars
    /\ [][(job # NoJob /\ ~SmartStep) =>
             /\ job'.workers = job.workers
             /\ job'.filter_chain = job.filter_chain
             /\ job'.smart_config = job.smart_config
             /\ num_workers' = num_workers]_vars

\* a job without smart mode has completed with the two workers it asked for
C30_Witness ==
    /\ TaskExited
    /\ ~smart_mode
    /\ job.status = "completed"
    /\ job.workers = 2
    /\ num_workers = 2
    /\ num_chunks = NumChunks(2)
    /\ job.filter_chain = "requested"
    /\ job.smart_config = NoSmartConf

\* ------------------------------------------------------------------------
\* C24
\* ------------------------------------------------------------------------
\* Amdahl's law: the speedup at N workers of a program whose serial
\* fraction is f
AmdahlSpeedup(f, N) == FDiv(FOne, FAdd(f, FDivInt(FSub(FOne, f), N)))

\* x and y > 0 differ by no more than y / 2^40
Near(x, y) ==
    LET d == FSub(x, y)
    IN  ~FLess([y EXCEPT !.e = @ - 40], [d EXCEPT !.neg = FALSE])

\* C24: when the analysis is reported (A < N), the serial fraction f is the
\* solution of A = 1/(f + (1-f)/N) clamped to [0,1]: the law gives back the
\* speedup A for f, or f is 1 when the solution is above 1 (A < 1).
C24_SerialFractionSolvesAmdahl ==
    analysis.kind = "reported" =>
        IF FLess(analysis.actual_speedup, FOne)
        THEN analysis.serial_fraction = FOne
        ELSE Near(AmdahlSpeedup(analysis.serial_fraction, max_workers),
                  analysis.actual_speedup)

\* ------------------------------------------------------------------------
\* C25
\* ------------------------------------------------------------------------
\* C25: a reported serial fraction f lies in [0,1]; the reported
\* theoretical maximum is 1/f when f > 0 and N when f = 0, replaced by 2N
\* when that is smaller; it is positive and never above 2N.
C25_FractionClampedMaxCapped ==
    analysis.kind = "reported" =>
        LET f     == analysis.serial_fraction
            tmax  == analysis.theoretical_max
            ideal == IF f = FZero THEN FromInt(max_workers)
                     ELSE FDiv(FOne, f)
            cap   == FromInt(2 * max_workers)
        IN  /\ ~FLess(f, FZero)
            /\ ~FLess(FOne, f)
            /\ tmax = IF FLess(cap, ideal) THEN cap ELSE ideal
            /\ FLess(FZero, tmax)
            /\ ~FLess(cap, tmax)

\* a speedup of 1.8 at 2 workers: the fraction is about 0.2 and its inverse,
\* about 5, is replaced by the cap 4
C25_Witness ==
    /\ analysis.kind = "reported"
    /\ max_workers = 2
    /\ serial_time = Tenths(9)
    /\ sweep_results[2].time = Tenths(5)
    /\ FLess(FZero, analysis.serial_fraction)
    /\ FLess(FromInt(4), FDiv(FOne, analysis.serial_fraction))
    /\ analysis.theoretical_max = FromInt(4)

\* ------------------------------------------------------------------------
\* Vocabulary of the properties of the server with several jobs
\* ------------------------------------------------------------------------
\* the job of task k is in flight: submitted, its task not yet ended
InFlight(k) == tasks[k].pc \notin {"exited", "crashed"}

\* the run_render_task call of task k has ended
TaskEnded(k) == tasks[k].pc \in {"exited", "crashed"}

\* task k has made its working directory and not yet removed it itself
HoldsTemp(k) == tasks[k].pc \in {"running", "completed", "report", "stats",
                                 "except", "except_stats", "finally"}

\* no other started task works on the dict of task k
OwnsDict(k) == \A j \in DOMAIN tasks :
                   j # k => tasks[j].job # tasks[k].job

\* ------------------------------------------------------------------------
\* C26
\* ------------------------------------------------------------------------
\* C26: two distinct jobs in flight at the same time have distinct job ids
\* (hence distinct working directories and output paths), and the working
\* directory of a task that has made it is there until the task's own
\* cleanup: no other job's cleanup removes it.
C26_NoFilesystemCollision ==
    /\ \A j, k \in DOMAIN tasks :
           j # k /\ InFlight(j) /\ InFlight(k)
               => tasks[j].job_id # tasks[k].job_id
    /\ \A k \in DOMAIN tasks :
           HoldsTemp(k) => tasks[k].job_id \in TEMP_BASE

\* ------------------------------------------------------------------------
\* C28
\* ------------------------------------------------------------------------
\* C28: successful_jobs + failed_jobs never exceeds total_jobs; a task that
\* has ended has incremented one of the two counters, once; and when the
\* task of every submitted job has ended the sum equals total_jobs.
C28_CountersAccountForJobs ==
    /\ GLOBAL_STATS.successful_jobs + GLOBAL_STATS.failed_jobs
           <= GLOBAL_STATS.total_jobs
    /\ \A k \in DOMAIN tasks : tasks[k].counted <= 1
    /\ \A k \in DOMAIN tasks : TaskEnded(k) => tasks[k].counted = 1
    /\ (\A k \in DOMAIN tasks : TaskEnded(k))
           => GLOBAL_STATS.successful_jobs + GLOBAL_STATS.failed_jobs
                  = GLOBAL_STATS.total_jobs

\* ------------------------------------------------------------------------
\* C29
\* ------------------------------------------------------------------------
\* C29: a DELETE of a job whose task has started removes the dict from what
\* poll and list return and changes nothing else; the task is not
\* cancelled: it can always take its next step, it ends only after having
\* written completed or failed to its dict (which then shows that status
\* unless another task shares the dict), and its cleanup step leaves no
\* working directory of its job id.
C29_DeleteDoesNotCancel ==
    /\ [](\A k \in DOMAIN tasks :
             tasks[k].deleted_at = "started" =>
                 /\ tasks[k].job \notin StoredDicts
                 /\ tasks[k].pc # "crashed"
                 /\ tasks[k].pc # "exited" => ENABLED TaskStep(k)
                 /\ tasks[k].pc = "exited" =>
                        /\ TerminalStatus(tasks[k].wrote)
                        /\ OwnsDict(k) =>
                               job_dicts[tasks[k].job].status = tasks[k].wrote)
    /\ [][(DOMAIN JOBS' # DOMAIN JOBS /\ DOMAIN JOBS' \subseteq DOMAIN JOBS)
             => /\ job_dicts' = job_dicts
                /\ TEMP_BASE' = TEMP_BASE
                /\ OUTPUT_DIR' = OUTPUT_DIR
                /\ GLOBAL_STATS' = GLOBAL_STATS
                /\ \A k \in DOMAIN tasks :
                       /\ tasks'[k].pc = tasks[k].pc
                       /\ tasks'[k].job = tasks[k].job]_vars
    /\ [][\A k \in DOMAIN tasks :
              (tasks[k].deleted_at = "started" /\ tasks[k].pc # "exited"
                   /\ tasks'[k].pc = "exited")
                  => /\ tasks[k].pc = "finally"
                     /\ tasks[k].job_id \notin TEMP_BASE']_vars

\* a job deleted while its task was running, whose task has since completed
\* it, removed its directory and ended; the dict is not served any more
C29_Witness ==
    \E k \in DOMAIN tasks :
        /\ tasks[k].deleted_at = "started"
        /\ tasks[k].pc = "exited"
        /\ tasks[k].wrote = "completed"
        /\ job_dicts[tasks[k].job].status = "completed"
        /\ tasks[k].job \notin StoredDicts
        /\ tasks[k].job_id \notin DOMAIN JOBS
        /\ tasks[k].job_id \notin TEMP_BASE

\* ------------------------------------------------------------------------
\* C27
\* ------------------------------------------------------------------------
\* the task has executed line 233 and has not ended
PickedUp == task_pc \notin {"none", "rejected", "queued", "exited"}

\* run_parallel has been entered and every encode it submitted has ended
AllWorkersReturned ==
    /\ pc \in {"collect", "pool_exit"}
    /\ Finished = ChunkIds

\* C27: when the task thread keeps being scheduled and every external tool
\* ends, a job that has been picked up gets to the end of its task with
\* status completed or failed and without its working directory; and
\* run_parallel returns or raises once every segment worker has returned.
C27_TaskAndRunParallelEnd ==
    /\ PickedUp ~> (/\ task_pc = "exited"
                    /\ TerminalStatus(job.status)
                    /\ job_temp = "absent")
    /\ AllWorkersReturned ~> Terminal

\* a job whose output was merged after every worker had returned, and whose
\* task has ended: completed, directory removed
C27_Witness ==
    /\ task_pc = "exited"
    /\ pc = "returned"
    /\ Finished = ChunkIds
    /\ num_chunks > 1
    /\ job.status = "completed"
    /\ job_temp = "absent"

\* ------------------------------------------------------------------------
\* C31
\* ------------------------------------------------------------------------
\* the entry of the worker count run last says that the run failed
LastRunFailed(runs, res) ==
    /\ runs # <<>>
    /\ runs[Len(runs)] \in DOMAIN res
    /\ ~res[runs[Len(runs)]].success

\* C31: a run of the sweep that fails is recorded as an entry with success
\* False and the time None, raises nothing into main and leaves the sweep
\* where it was; the loop is left only when every worker count of the
\* series has been run, the ones after a failure included.
C31_FailedRunDoesNotAbortSweep ==
    /\ [](\A n \in DOMAIN sweep_results :
             ~sweep_results[n].success => sweep_results[n].time = "None")
    /\ []((args.sweep /\ cli_pc \in {"sweep_run", "display"})
             => cli_exc = NoError)
    /\ [][(sweep_runs' # sweep_runs /\ LastRunFailed(sweep_runs', sweep_results'))
             => /\ cli_pc' = "sweep_run"
                /\ cli_exc' = NoError
                /\ sweep_runs' = SubSeq(worker_counts, 1, Len(sweep_runs'))]_vars
    /\ [][(cli_pc = "sweep_run" /\ cli_pc' # "sweep_run")
             => /\ cli_pc' = "display"
                /\ sweep_runs = worker_counts
                /\ DOMAIN sweep_results = Elements(worker_counts)]_vars

\* a sweep up to 4 workers whose first run failed: the runs at 2 and at 4
\* workers were made all the same
C31_Witness ==
    /\ SweepReturned
    /\ max_workers = 4
    /\ ~sweep_results[1].success
    /\ sweep_results[1].time = "None"
    /\ sweep_runs = <<1, 2, 4>>
    /\ sweep_results[2].success
    /\ sweep_results[4].success

\* ------------------------------------------------------------------------
\* C32
\* ------------------------------------------------------------------------
\* C32: once a sweep has returned and main has made its copy, there is a
\* file at the requested output path if and only if the run at max_workers
\* succeeded, and that file is the merged result of that run.
C32_SweepOutputIffBestRunSucceeded ==
    SweepReturned =>
        /\ files.output # "absent" <=> sweep_results[max_workers].success
        /\ sweep_results[max_workers].success => files.output = "complete"

\* ------------------------------------------------------------------------
\* C33
\* ------------------------------------------------------------------------
\* C33: for every max_workers >= 1 and all positive serial and parallel
\* times, display_results ends without a division by zero: it reports the
\* figures or nothing, and main goes on to the export.
C33_AnalysisNeverDividesByZero ==
    /\ analysis.kind \in {"pending", "none", "reported"}
    /\ cli_exc = NoError
    /\ analysis.kind # "pending" => cli_pc = "export"
====
